---- MODULE Spec2Model ----
\* BatchExecutor (src/contracts/BatchExecutor.sol): EIP-712 verification, the
\* per-sender nonce ledger and executeBatch, run on the EVM's call-frame
\* semantics: a frame that reverts restores the state it was entered with, a
\* low-level call that reverts returns success = false to its caller.
\* GasSponsor (same file, from line 225): the claim protocol with its caps and
\* daily windows, its view functions and the owner's functions, on the same
\* call-frame semantics; SampleToken (src/unnamed/part_003): the
\* trusted-forwarder reading of the caller.
EXTENDS Integers, Sequences, FiniteSets, TLC

\* ------------------------------------------------------------------ bounds
MaxNonce == 2   \* requests carry nonces 0..MaxNonce-1; a ledger entry reaches MaxNonce
MaxBatch == 2   \* longest requests[] / signatures[] array submitted
MaxDepth == 2   \* deepest nesting of executeBatch inside a target invocation
MaxUsers == 2   \* longest users[] array passed to claim
MaxClaimDepth == 2  \* deepest nesting of claim inside a reimbursement transfer
MaxDay == 2     \* last day index block.timestamp reaches
MaxPool == 6    \* most wei ever deposited into the pool
MaxForced == 1  \* most wei that reaches the pool without a call of its code
maxBatchSize == 2   \* Relayer.maxBatchSize, the queue length that triggers a flush
MaxPosts == 2   \* most calls of addRequest in one run (one more in the busy runs)

\* ------------------------------------------------------------- the universe
Senders == {"alice", "bob"}
ZeroAddress == "0x0"
Unrelated == "0xunrelated"
Executor == "executor"
Targets == {"token", "vault"}
Relayers == {"relayer"}
Values == {0, 1}
GasLimits == {200000, 100000}
Payloads == {"transfer1", "transfer2"}
ChainId == 11155111
SigLength == 65

\* struct ForwardRequest
ForwardRequest ==
    [from : Senders, to : Targets, value : Values, gas : GasLimits,
     nonce : 0..(MaxNonce - 1), data : Payloads]

\* keccak256 is collision resistant: modelled as an injective tagged wrapper.
keccak256(x) == <<"keccak256", x>>

REQUEST_TYPEHASH ==
    keccak256("ForwardRequest(address from,address to,uint256 value,uint256 gas,uint256 nonce,bytes data)")

\* The separator the constructor computes for an instance at address
\* `instance` on chain `chain`.
DomainSeparator(chain, instance) ==
    keccak256(<<keccak256("EIP712Domain(string name,string version,uint256 chainId,address verifyingContract)"),
                keccak256("BatchExecutor"), keccak256("1"), chain, instance>>)

\* The separator stored by this instance.
DOMAIN_SEPARATOR == DomainSeparator(ChainId, Executor)

\* Not the code: a struct hash that leaves the gas limit out.
StructHashNoGas(req) ==
    keccak256(<<REQUEST_TYPEHASH, req.from, req.to, req.value, req.nonce,
                keccak256(req.data)>>)

\* verify, steps 1 and 2: the struct hash and the digest.
StructHash(req) ==
    keccak256(<<REQUEST_TYPEHASH, req.from, req.to, req.value, req.gas, req.nonce,
                keccak256(req.data)>>)

Digest(req) == keccak256(<<"1901", DOMAIN_SEPARATOR, StructHash(req)>>)

\* --------------------------------------------------- the off-chain signer
\* getEIP712Domain(batchExecutorAddress, chainId)
getEIP712Domain(batchExecutorAddress, chainId) ==
    [name |-> "BatchExecutor", version |-> "1", chainId |-> chainId,
     verifyingContract |-> batchExecutorAddress]

\* The EIP-712 hash signTypedData signs for FORWARD_REQUEST_TYPES.
TypedDataHash(domain, request) ==
    keccak256(<<"1901",
                keccak256(<<keccak256("EIP712Domain(string name,string version,uint256 chainId,address verifyingContract)"),
                            keccak256(domain.name), keccak256(domain.version),
                            domain.chainId, domain.verifyingContract>>),
                keccak256(<<keccak256("ForwardRequest(address from,address to,uint256 value,uint256 gas,uint256 nonce,bytes data)"),
                            request.from, request.to, request.value, request.gas,
                            request.nonce, keccak256(request.data)>>)>>)

\* A signature: its byte length, the key that made it (ZeroAddress: bytes from
\* which ecrecover recovers nothing) and the digest that was signed.
Sign(key, digest) == [length |-> SigLength, signer |-> key, digest |-> digest]

\* signForwardRequest(signer, domain, request)
signForwardRequest(signer, domain, request) == Sign(signer, TypedDataHash(domain, request))

ThisDomain == getEIP712Domain(Executor, ChainId)

\* Domains a signer may sign under: this one, another chain, another instance,
\* another version of the system.
Domains ==
    {ThisDomain, getEIP712Domain(Executor, 1), getEIP712Domain("executor2", ChainId),
     [ThisDomain EXCEPT !.version = "2"]}

NoRequest ==
    [from |-> ZeroAddress, to |-> ZeroAddress, value |-> 0, gas |-> 0, nonce |-> 0, data |-> ""]
ShortSig ==
    [length |-> 64, signer |-> ZeroAddress, digest |-> TypedDataHash(ThisDomain, NoRequest)]
GarbageSig ==
    [length |-> SigLength, signer |-> ZeroAddress, digest |-> TypedDataHash(ThisDomain, NoRequest)]

\* ecrecover: the signing key's address for the signed digest, an address
\* unrelated to every sender for any other digest, zero for unrecoverable bytes.
ecrecover(digest, sig) ==
    IF sig.signer = ZeroAddress THEN ZeroAddress
    ELSE IF sig.digest = digest THEN sig.signer
    ELSE Unrelated

ErrLength == "BatchExecutor: length mismatch"
ErrEmpty == "BatchExecutor: empty batch"
ErrInvalid == "BatchExecutor: invalid signature or nonce"
ErrSigLength == "BatchExecutor: invalid signature length"
ErrSig == "BatchExecutor: invalid signature"

\* _recoverSigner: reverts on a length other than 65 and on a zero signer.
recoverSigner(digest, sig) ==
    IF sig.length # SigLength
    THEN [reverted |-> TRUE, reason |-> ErrSigLength, signer |-> ZeroAddress]
    ELSE IF ecrecover(digest, sig) = ZeroAddress
    THEN [reverted |-> TRUE, reason |-> ErrSig, signer |-> ZeroAddress]
    ELSE [reverted |-> FALSE, reason |-> "", signer |-> ecrecover(digest, sig)]

\* Not the code: verify without the nonce comparison.
verifyNoNonce(req, sig, ns) ==
    LET rec == recoverSigner(Digest(req), sig)
    IN  IF rec.reverted
        THEN [reverted |-> TRUE, reason |-> rec.reason, value |-> FALSE]
        ELSE [reverted |-> FALSE, reason |-> "", value |-> rec.signer = req.from]

\* Not the code: verify accepting any nonce from the current one on.
verifyFromNonce(req, sig, ns) ==
    LET rec == recoverSigner(Digest(req), sig)
    IN  IF rec.reverted
        THEN [reverted |-> TRUE, reason |-> rec.reason, value |-> FALSE]
        ELSE [reverted |-> FALSE, reason |-> "",
              value |-> rec.signer = req.from /\ req.nonce >= ns[req.from]]

\* verify(req, signature) against the ledger ns: a revert of _recoverSigner
\* propagates, otherwise the boolean of step 4.
verify(req, sig, ns) ==
    LET rec == recoverSigner(Digest(req), sig)
    IN  IF rec.reverted
        THEN [reverted |-> TRUE, reason |-> rec.reason, value |-> FALSE]
        ELSE [reverted |-> FALSE, reason |-> "",
              value |-> rec.signer = req.from /\ req.nonce = ns[req.from]]

\* getNonce(from)
getNonce(ns, from) == ns[from]

\* ---------------------------------------------------------------- the state
VARIABLES
    nonces,     \* mapping(address => uint256) nonces
    invoked,    \* per (sender, nonce): how many target invocations the state holds
    logs,       \* events emitted by the transaction in progress
    delivered,  \* calls executed by targets in the transaction in progress
    stack,      \* the executeBatch call frames, outermost first
    last,       \* what the latest finished call returned to its caller
    sponsor,    \* the storage of GasSponsor, one field per state variable
    balance,    \* address(this).balance of GasSponsor, in wei
    received,   \* wei each submitter was sent by the pool on the latest day of a transfer
    timestamp,  \* block.timestamp
    claims,     \* the claim call frames waiting in their transfer, outermost first
    outcome,    \* what the latest finished GasSponsor call returned to its caller
    pendingRequests,    \* Relayer.pendingRequests
    pendingSignatures,  \* Relayer.pendingSignatures
    tasks,      \* the calls of addRequest and flushBatch waiting in an await
    finished,   \* the results flushBatch returned for its executed batches, oldest first
    posts,      \* how many times addRequest has been called
    reply,      \* what the latest finished call of addRequest returned or threw
    executed    \* the admitted pairs a mined executeBatch transaction of the relayer held

executorVars == <<nonces, invoked, logs, delivered, stack, last>>
sponsorVars == <<sponsor, balance, received, timestamp, claims, outcome>>
relayerVars == <<pendingRequests, pendingSignatures, tasks, finished, posts, reply, executed>>
vars == <<nonces, invoked, logs, delivered, stack, last,
          sponsor, balance, received, timestamp, claims, outcome,
          pendingRequests, pendingSignatures, tasks, finished, posts, reply, executed>>

\* constructor of Relayer: both queues empty, nothing in progress.
RelayerConstructed ==
    /\ pendingRequests = <<>>
    /\ pendingSignatures = <<>>
    /\ tasks = {}
    /\ finished = <<>>
    /\ posts = 0
    /\ reply = [id |-> 0, answer |-> ""]
    /\ executed = {}

Pairs == Senders \X (0..MaxNonce)

\* The state a reverting frame restores.
World == [nonces |-> nonces, invoked |-> invoked, logs |-> logs, delivered |-> delivered]

NoWorld == [nonces |-> [s \in Senders |-> 0], invoked |-> [p \in Pairs |-> 0],
            logs |-> <<>>, delivered |-> <<>>]

NoLast ==
    [kind |-> "none", status |-> "", reason |-> "", depth |-> 0, caller |-> "",
     requests |-> <<>>, signatures |-> <<>>, results |-> <<>>, failedAt |-> 0,
     verified |-> 0, pre |-> NoWorld, logs |-> <<>>, delivered |-> <<>>, value |-> FALSE]

Top == stack[Len(stack)]
Pop == SubSeq(stack, 1, Len(stack) - 1)
ReplaceTop(f) == [stack EXCEPT ![Len(stack)] = f]

\* ------------------------------------------------- GasSponsor: the storage
Submitters == {"relayer", "relayer2"}
Deployer == "deployer"
OneDay == 86400

\* The four limits passed to the constructor, in wei.
DeployedLimits ==
    [maxPerClaim |-> 3, dailyLimitPerRelayer |-> 4, dailyLimitPerUser |-> 2,
     globalDailyLimit |-> 5]

\* Limits a pool is deployed with: those, and the same with the per-user limit
\* or the global limit set so high that it never binds.
LimitChoices ==
    {DeployedLimits,
     [DeployedLimits EXCEPT !.dailyLimitPerUser = 8],
     [DeployedLimits EXCEPT !.globalDailyLimit = 16]}

\* The storage after constructor(_maxPerClaim, ...) called by deployer.
constructor(deployer, limits) ==
    [owner |-> deployer,
     paused |-> FALSE,
     whitelistedRelayers |-> [r \in Submitters |-> FALSE],
     maxPerClaim |-> limits.maxPerClaim,
     dailyLimitPerRelayer |-> limits.dailyLimitPerRelayer,
     dailyLimitPerUser |-> limits.dailyLimitPerUser,
     globalDailyLimit |-> limits.globalDailyLimit,
     relayerDailyClaimed |-> [r \in Submitters |-> 0],
     relayerLastClaimDay |-> [r \in Submitters |-> 0],
     userDailySponsored |-> [u \in Senders |-> 0],
     userLastSponsorDay |-> [u \in Senders |-> 0],
     globalDailyClaimed |-> 0,
     globalLastClaimDay |-> 0,
     totalDeposited |-> 0,
     totalClaimed |-> 0,
     totalClaimCount |-> 0]

\* What has moved in and out of the pool beside its own bookkeeping: the
\* payments of the day day to each submitter, the sum and the number of all
\* payments made by claims, the sum taken out by emergencyWithdraw, and the
\* ether that reached the pool without a call of its code.
NoneReceived ==
    [day |-> 0, amounts |-> [r \in Submitters |-> 0],
     paid |-> 0, count |-> 0, withdrawn |-> 0, forced |-> 0]

\* What a transaction's revert restores of the pool and the accounts.
Ledger == [sponsor |-> sponsor, balance |-> balance, received |-> received]

NoLedger ==
    [sponsor |-> constructor(Deployer, DeployedLimits), balance |-> 0,
     received |-> NoneReceived]

NoOutcome ==
    [kind |-> "none", status |-> "", reason |-> "", caller |-> "", amount |-> 0,
     users |-> <<>>, reimbursement |-> 0, depth |-> 0, arg |-> <<>>, result |-> <<>>,
     pre |-> NoLedger, reached |-> constructor(Deployer, DeployedLimits),
     committed |-> NoLedger, today |-> 0]

\* GasSponsor as the deployment leaves it: constructed with limits, the
\* deployer's relayer whitelisted, unfunded, at the start of day 1 of the
\* chain's clock (block.timestamp is far from 0 on a live chain).
SponsorDeployed(limits) ==
    /\ sponsor = [constructor(Deployer, limits) EXCEPT !.whitelistedRelayers["relayer"] = TRUE]
    /\ balance = 0
    /\ received = NoneReceived
    /\ timestamp = OneDay
    /\ claims = <<>>
    /\ outcome = NoOutcome
    /\ RelayerConstructed

Init ==
    /\ nonces = [s \in Senders |-> 0]
    /\ invoked = [p \in Pairs |-> 0]
    /\ logs = <<>>
    /\ delivered = <<>>
    /\ stack = <<>>
    /\ last = NoLast
    /\ SponsorDeployed(DeployedLimits)

\* ------------------------------------------------------- inputs of the runs
\* Requests submitted in batches (verify alone is run over all of ForwardRequest).
BatchRequests ==
    {req \in ForwardRequest :
        req.to = "token" /\ req.value = 0 /\ req.gas = 200000 /\ req.data = "transfer1"}

ValidSig(req) == signForwardRequest(req.from, ThisDomain, req)

\* Signatures a submitter pairs with a request: the sender's own, the same
\* digest signed by another sender's key, a 64-byte string, and the sender's
\* own over the request with another payload or another target.
SigChoices(req) ==
    {ValidSig(req), ShortSig}
        \cup {signForwardRequest(k, ThisDomain, req) : k \in Senders \ {req.from}}
        \cup {ValidSig([req EXCEPT !.data = "transfer2"]),
              ValidSig([req EXCEPT !.to = "vault"])}

Items == UNION {{[req |-> r, sig |-> s] : s \in SigChoices(r)} : r \in BatchRequests}

RequestSeqs == UNION {[1..n -> BatchRequests] : n \in 0..MaxBatch}

ValidSigs(rs) == [j \in 1..Len(rs) |-> ValidSig(rs[j])]
DropLast(seq) == SubSeq(seq, 1, Len(seq) - 1)

\* signatures[] for requests[] rs: every signature the sender's own, or one
\* position holding another choice, or one signature missing.
SigVectors(rs) ==
    {ValidSigs(rs)}
        \cup UNION {{[ValidSigs(rs) EXCEPT ![j] = s] : s \in SigChoices(rs[j])} :
                        j \in 1..Len(rs)}
        \cup (IF rs = <<>> THEN {} ELSE {DropLast(ValidSigs(rs))})

\* Argument pairs of executeBatch, with those that have one request missing.
BatchCalls ==
    UNION {{<<rs, sv>> : sv \in SigVectors(rs)} : rs \in RequestSeqs}
        \cup {<<DropLast(rs), ValidSigs(rs)>> : rs \in RequestSeqs \ {<<>>}}

\* ------------------------------------------------------------ executeBatch
\* The two require statements ahead of the loop.
\* Not the code: the empty-batch check left out.
PrecheckNoEmpty(rs, sigs) ==
    IF Len(rs) # Len(sigs) THEN ErrLength ELSE "ok"

Precheck(rs, sigs) ==
    IF Len(rs) # Len(sigs) THEN ErrLength
    ELSE IF Len(rs) = 0 THEN ErrEmpty
    ELSE "ok"

NewFrame(caller, rs, sigs) ==
    [caller |-> caller, requests |-> rs, signatures |-> sigs, i |-> 1,
     results |-> <<>>, successCount |-> 0, pc |-> "loop", failedAt |-> 0,
     verified |-> 0, saved |-> World, callSaved |-> World]

\* What a call rejected by Precheck returns: nothing was entered.
Rejected(caller, rs, sigs, reason, depth) ==
    [NoLast EXCEPT !.kind = "batch", !.status = "reverted", !.reason = reason,
                   !.depth = depth, !.caller = caller, !.requests = rs,
                   !.signatures = sigs, !.pre = World, !.logs = logs,
                   !.delivered = delivered]

\* A transaction: executeBatch called from outside, once the caller has taken
\* the result of the call before.
Submit(caller, rs, sigs) ==
    /\ stack = <<>>
    /\ last.kind = "none"
    /\ IF Precheck(rs, sigs) # "ok"
       THEN /\ last' = Rejected(caller, rs, sigs, Precheck(rs, sigs), 1)
            /\ UNCHANGED stack
       ELSE /\ stack' = <<NewFrame(caller, rs, sigs)>>
            /\ last' = NoLast
    /\ UNCHANGED <<nonces, invoked, logs, delivered>>
    /\ UNCHANGED <<sponsorVars, relayerVars>>

\* The frame f reverts: the state it was entered with is restored.
RevertFrame(f, reason) ==
    /\ nonces' = f.saved.nonces
    /\ invoked' = f.saved.invoked
    /\ logs' = f.saved.logs
    /\ delivered' = f.saved.delivered
    /\ stack' = Pop
    /\ last' = [NoLast EXCEPT !.kind = "batch", !.status = "reverted",
                   !.reason = reason, !.depth = Len(stack), !.caller = f.caller,
                   !.requests = f.requests, !.signatures = f.signatures,
                   !.failedAt = f.i, !.verified = f.verified + 1,
                   !.pre = f.saved, !.logs = f.saved.logs,
                   !.delivered = f.saved.delivered]

\* Not the code: the loop goes on to the next item when verify returns false.
ContinueOnInvalid(f, reason) ==
    /\ stack' = ReplaceTop([f EXCEPT !.failedAt = f.i, !.i = f.i + 1,
                                     !.results = Append(f.results, FALSE),
                                     !.verified = f.verified + 1])
    /\ last' = NoLast
    /\ UNCHANGED <<nonces, invoked, logs, delivered>>

\* require(verify(requests[i], signatures[i]), ...) with verify returning false.
RequireFailed(f, reason) == RevertFrame(f, reason)

\* Not the code: the ledger is left alone, or written without the increment.
ConsumeNothing(ns, req) == ns

ConsumeSameNonce(ns, req) == [ns EXCEPT ![req.from] = req.nonce]

\* nonces[req.from] = req.nonce + 1
Consume(ns, req) == [ns EXCEPT ![req.from] = req.nonce + 1]

\* _executeRequest up to the point where the target has control.
BeginRequest(f, req) ==
    LET ns == Consume(nonces, req)
        inv == [invoked EXCEPT ![<<req.from, req.nonce>>] = @ + 1]
    IN  /\ nonces' = ns
        /\ invoked' = inv
        /\ stack' = ReplaceTop([f EXCEPT !.pc = "call", !.verified = f.verified + 1,
                                         !.callSaved = [nonces |-> ns, invoked |-> inv,
                                                        logs |-> logs,
                                                        delivered |-> delivered]])
        /\ last' = NoLast
        /\ UNCHANGED <<logs, delivered>>

\* Not the code: every item verified against the ledger the batch was entered with.
VerifyItemStale ==
    /\ stack # <<>>
    /\ Top.pc = "loop"
    /\ Top.i <= Len(Top.requests)
    /\ LET f == Top
           req == f.requests[f.i]
           v == verify(req, f.signatures[f.i], f.saved.nonces)
       IN  IF v.reverted THEN RevertFrame(f, v.reason)
           ELSE IF ~v.value THEN RequireFailed(f, ErrInvalid)
           ELSE BeginRequest(f, req)
    /\ UNCHANGED <<sponsorVars, relayerVars>>

\* One turn of the loop up to the call: verify, then consume and invoke.
VerifyItem ==
    /\ stack # <<>>
    /\ Top.pc = "loop"
    /\ Top.i <= Len(Top.requests)
    /\ LET f == Top
           req == f.requests[f.i]
           v == verify(req, f.signatures[f.i], nonces)
       IN  IF v.reverted THEN RevertFrame(f, v.reason)
           ELSE IF ~v.value THEN RequireFailed(f, ErrInvalid)
           ELSE BeginRequest(f, req)
    /\ UNCHANGED <<sponsorVars, relayerVars>>

\* abi.encodePacked(req.data, req.from), sent by the executor to req.to.
Envelope(req) ==
    [to |-> req.to, msgSender |-> Executor, calldata |-> <<req.data, req.from>>,
     value |-> req.value, gas |-> req.gas]

\* SampleToken.trustedForwarder, set by the deployment to the executor.
trustedForwarder == Executor

\* msg.data.length of a call: the payload's bytes and the 20 of each appended address.
DataLength(calldata) == 68 + 20 * (Len(calldata) - 1)

\* Not the code: the appended identity taken whoever the immediate caller is.
msgSenderUnchecked(call) == call.calldata[Len(call.calldata)]

\* SampleToken._msgSender for the call in progress: the last 20 bytes of the
\* calldata when the immediate caller is the trusted forwarder.
msgSender(call) ==
    IF call.msgSender = trustedForwarder /\ DataLength(call.calldata) >= 20
    THEN call.calldata[Len(call.calldata)]
    ELSE call.msgSender

\* A call the target has executed, with the account the target acted for: the
\* token's _msgSender, the immediate caller for any other target.
Executed(call) ==
    [call |-> call,
     sender |-> IF call.to = "token" THEN msgSender(call) ELSE call.msgSender]

RequestExecuted(req, success, depth) ==
    [type |-> "RequestExecuted", from |-> req.from, to |-> req.to,
     nonce |-> req.nonce, success |-> success, depth |-> depth]

BatchExecuted(relayer, totalRequests, successCount, depth) ==
    [type |-> "BatchExecuted", relayer |-> relayer, totalRequests |-> totalRequests,
     successCount |-> successCount, depth |-> depth]

\* Not the code: every item counted as a success.
CountAlways(count, success) == count + 1

\* if (results[i]) { successCount++; }
CountSuccess(count, success) == IF success THEN count + 1 ELSE count

\* The target returns: success keeps what it did, failure is the revert of the
\* target's frame, which undoes everything done since the call began.
ItemDone(f, success, base) ==
    /\ nonces' = base.nonces
    /\ invoked' = base.invoked
    /\ delivered' = IF success
                    THEN Append(base.delivered, Executed(Envelope(f.requests[f.i])))
                    ELSE base.delivered
    /\ logs' = Append(base.logs, RequestExecuted(f.requests[f.i], success, Len(stack)))
    /\ stack' = ReplaceTop([f EXCEPT !.results = Append(f.results, success),
                                     !.successCount = CountSuccess(f.successCount, success),
                                     !.i = f.i + 1, !.pc = "loop"])
    /\ last' = NoLast

\* Not the code: a failed invocation gives the sender's nonce back.
TargetReturnsUnconsuming(success) ==
    /\ stack # <<>>
    /\ Top.pc = "call"
    /\ last.kind = "none"
    /\ ItemDone(Top, success,
                IF success THEN World
                ELSE [Top.callSaved EXCEPT
                        !.nonces[Top.requests[Top.i].from] = Top.requests[Top.i].nonce])
    /\ UNCHANGED <<sponsorVars, relayerVars>>

\* Not the code: require(success) after the call.
TargetReturnsStrict(success) ==
    /\ stack # <<>>
    /\ Top.pc = "call"
    /\ last.kind = "none"
    /\ IF success THEN ItemDone(Top, TRUE, World)
       ELSE RevertFrame(Top, "BatchExecutor: call failed")
    /\ UNCHANGED <<sponsorVars, relayerVars>>

TargetReturns(success) ==
    /\ stack # <<>>
    /\ Top.pc = "call"
    /\ last.kind = "none"
    /\ ItemDone(Top, success, IF success THEN World ELSE Top.callSaved)
    /\ UNCHANGED <<sponsorVars, relayerVars>>

\* The loop is over: emit BatchExecuted and return results.
Complete ==
    /\ stack # <<>>
    /\ Top.pc = "loop"
    /\ Top.i > Len(Top.requests)
    /\ LET f == Top
           out == Append(logs, BatchExecuted(f.caller, Len(f.requests),
                                             f.successCount, Len(stack)))
       IN  /\ stack' = Pop
           /\ last' = [NoLast EXCEPT !.kind = "batch", !.status = "ok",
                          !.depth = Len(stack), !.caller = f.caller,
                          !.requests = f.requests, !.signatures = f.signatures,
                          !.results = f.results, !.failedAt = f.failedAt,
                          !.verified = f.verified, !.pre = f.saved,
                          !.logs = out, !.delivered = delivered]
           /\ IF Len(stack) = 1
              THEN logs' = <<>> /\ delivered' = <<>>
              ELSE logs' = out /\ UNCHANGED delivered
    /\ UNCHANGED <<nonces, invoked>>
    /\ UNCHANGED <<sponsorVars, relayerVars>>

\* Items a target hands back to the executor while it has control: the item
\* being executed and the same sender's next request.
ReentryItems(f) ==
    LET req == f.requests[f.i]
    IN  {[req |-> req, sig |-> f.signatures[f.i]]}
            \cup {[req |-> r, sig |-> ValidSig(r)] :
                    r \in {q \in BatchRequests :
                            q.from = req.from /\ q.nonce = req.nonce + 1}}

\* The item whose target has control.
CurrentItem ==
    IF stack = <<>> THEN {}
    ELSE IF Top.pc = "call"
    THEN {[req |-> Top.requests[Top.i], sig |-> Top.signatures[Top.i]]}
    ELSE {}

ReentryChoices ==
    IF stack = <<>> THEN {}
    ELSE IF Top.pc = "call" THEN ReentryItems(Top)
    ELSE {}

\* The target calls executeBatch from inside the invocation.
TargetReenters(rs, sigs) ==
    /\ stack # <<>>
    /\ Top.pc = "call"
    /\ last.kind = "none"
    /\ Len(stack) < MaxDepth
    /\ LET caller == Top.requests[Top.i].to
       IN  IF Precheck(rs, sigs) # "ok"
           THEN /\ last' = Rejected(caller, rs, sigs, Precheck(rs, sigs), Len(stack) + 1)
                /\ UNCHANGED stack
           ELSE /\ stack' = Append(stack, NewFrame(caller, rs, sigs))
                /\ last' = NoLast
    /\ UNCHANGED <<nonces, invoked, logs, delivered>>
    /\ UNCHANGED <<sponsorVars, relayerVars>>

\* A view call comes from outside between transactions or from a target that
\* has control, once the result of a finished executeBatch has been taken.
CanCallView ==
    /\ last.kind \in {"none", "verify"}
    /\ IF stack = <<>> THEN TRUE ELSE Top.pc = "call"

\* Not the code: a verify that consumes the nonce it accepts.
VerifyCallConsuming(req, sig) ==
    /\ CanCallView
    /\ LET v == verify(req, sig, nonces)
       IN  /\ last' = [NoLast EXCEPT !.kind = "verify", !.requests = <<req>>,
                          !.signatures = <<sig>>, !.depth = Len(stack) + 1,
                          !.status = IF v.reverted THEN "reverted" ELSE "ok",
                          !.reason = v.reason, !.value = v.value]
           /\ nonces' = IF v.value THEN Consume(nonces, req) ELSE nonces
    /\ UNCHANGED <<invoked, logs, delivered, stack>>
    /\ UNCHANGED <<sponsorVars, relayerVars>>

\* verify called as a view function, from outside or by a target.
VerifyCall(req, sig) ==
    /\ CanCallView
    /\ LET v == verify(req, sig, nonces)
       IN  last' = [NoLast EXCEPT !.kind = "verify", !.requests = <<req>>,
                       !.signatures = <<sig>>, !.depth = Len(stack) + 1,
                       !.status = IF v.reverted THEN "reverted" ELSE "ok",
                       !.reason = v.reason, !.value = v.value]
    /\ UNCHANGED <<nonces, invoked, logs, delivered, stack>>
    /\ UNCHANGED <<sponsorVars, relayerVars>>

\* Accounts that call the token themselves.
DirectCallers == Senders \cup Relayers

\* A transaction calling the token directly: caller is the immediate caller,
\* the calldata is the payload followed by 20 bytes naming the account appended.
DirectCall(caller, data, appended) ==
    /\ stack = <<>>
    /\ last.kind = "none"
    /\ LET call == [to |-> "token", msgSender |-> caller,
                    calldata |-> <<data, appended>>, value |-> 0, gas |-> 200000]
       IN  last' = [NoLast EXCEPT !.kind = "token", !.status = "ok", !.depth = 1,
                       !.caller = caller, !.pre = World,
                       !.delivered = <<Executed(call)>>]
    /\ UNCHANGED <<nonces, invoked, logs, delivered, stack>>
    /\ UNCHANGED <<sponsorVars, relayerVars>>

\* The caller (outside, or the target that made the call) takes the result of
\* its finished call.
TakeResult ==
    /\ last.kind # "none"
    /\ last' = NoLast
    /\ UNCHANGED <<nonces, invoked, logs, delivered, stack>>
    /\ UNCHANGED <<sponsorVars, relayerVars>>

Next ==
    \/ TakeResult
    \/ \E c \in Relayers, b \in (IF stack = <<>> THEN BatchCalls ELSE {}) :
          Submit(c, b[1], b[2])
    \/ VerifyItem
    \/ \E success \in BOOLEAN : TargetReturns(success)
    \/ Complete
    \/ \E it \in ReentryChoices : TargetReenters(<<it.req>>, <<it.sig>>)
    \/ \E it \in (IF stack = <<>> THEN Items ELSE CurrentItem) :
          VerifyCall(it.req, it.sig)
    \/ \E c \in (IF stack = <<>> THEN DirectCallers ELSE {}) :
          \E data \in Payloads, a \in Senders : DirectCall(c, data, a)

Spec == Init /\ [][Next]_vars

\* ------------------------------------------- verify over the whole universe
\* Requests that differ from req in at most one field.
Variants(req) ==
    {req}
        \cup {[req EXCEPT !.from = x] : x \in Senders}
        \cup {[req EXCEPT !.to = x] : x \in Targets}
        \cup {[req EXCEPT !.value = x] : x \in Values}
        \cup {[req EXCEPT !.gas = x] : x \in GasLimits}
        \cup {[req EXCEPT !.nonce = x] : x \in 0..(MaxNonce - 1)}
        \cup {[req EXCEPT !.data = x] : x \in Payloads}

\* Signatures presented with req: any sender's key, any domain, over req or a
\* variant of it, and the two malformed byte strings.
SignaturesFor(req) ==
    {ShortSig, GarbageSig}
        \cup UNION {UNION {{signForwardRequest(k, d, q) : q \in Variants(req)} :
                            d \in Domains} : k \in Senders}

\* Any ledger the executor can hold, each consumed pair invoked once.
InitVerify ==
    /\ nonces \in [Senders -> 0..MaxNonce]
    /\ invoked = [p \in Pairs |-> IF p[2] < nonces[p[1]] THEN 1 ELSE 0]
    /\ logs = <<>>
    /\ delivered = <<>>
    /\ stack = <<>>
    /\ last = NoLast
    /\ SponsorDeployed(DeployedLimits)

VerifyAny ==
    /\ stack = <<>>
    /\ last.kind = "none"
    /\ \E req \in ForwardRequest : \E sig \in SignaturesFor(req) : VerifyCall(req, sig)

NextVerify == VerifyAny \/ TakeResult

SpecVerify == InitVerify /\ [][NextVerify]_vars

\* ------------------------------------------------------- GasSponsor: claim
ErrNotOwner == "GasSponsor: not owner"
ErrPaused == "GasSponsor: paused"
ErrNotWhitelisted == "GasSponsor: not whitelisted"
ErrZeroDeposit == "GasSponsor: zero deposit"
ErrRelayerLimit == "GasSponsor: relayer daily limit reached"
ErrUserLimit == "GasSponsor: user daily limit reached"
ErrGlobalLimit == "GasSponsor: global daily limit reached"
ErrFunds == "GasSponsor: insufficient pool funds"
ErrTransfer == "GasSponsor: transfer failed"
\* Solidity 0.8 reverts with Panic(0x12) on a division by zero.
PanicDivision == "Panic(0x12)"

\* block.timestamp / 1 days
Today(ts) == ts \div OneDay

\* Not the code: the requested amount taken as it is.
NoCap(amount, cap) == amount

\* Step 1: reimbursement = amount, lowered to maxPerClaim.
CapAmount(amount, cap) == IF amount > cap THEN cap ELSE amount

\* Not the code: the relayer's counter cleared at every claim.
RelayerWindowAlways(s, relayer, today) ==
    [s EXCEPT !.relayerDailyClaimed[relayer] = 0, !.relayerLastClaimDay[relayer] = today]

\* Step 2, the reset: if (relayerLastClaimDay[msg.sender] < today) { ... }
RelayerWindow(s, relayer, today) ==
    IF s.relayerLastClaimDay[relayer] < today
    THEN [s EXCEPT !.relayerDailyClaimed[relayer] = 0,
                   !.relayerLastClaimDay[relayer] = today]
    ELSE s

\* Not the code: one stale user clearing the counters of all users.
UserWindowAll(s, user, today) ==
    IF s.userLastSponsorDay[user] < today
    THEN [s EXCEPT !.userDailySponsored = [u \in Senders |-> 0],
                   !.userLastSponsorDay = [u \in Senders |-> today]]
    ELSE s

\* Step 3, the reset of one user.
UserWindow(s, user, today) ==
    IF s.userLastSponsorDay[user] < today
    THEN [s EXCEPT !.userDailySponsored[user] = 0, !.userLastSponsorDay[user] = today]
    ELSE s

\* Step 4, the reset.
GlobalWindow(s, today) ==
    IF s.globalLastClaimDay < today
    THEN [s EXCEPT !.globalDailyClaimed = 0, !.globalLastClaimDay = today]
    ELSE s

\* Not the code: the split rounded up.
PerUserCostCeil(reimbursement, count) == (reimbursement + count - 1) \div count

\* uint256 perUserCost = reimbursement / users.length (users.length > 0)
PerUserCost(reimbursement, count) == reimbursement \div count

\* Step 3, the loop from users[i] on: reset, then require, user by user. The
\* storage reached is returned with the verdict.
RECURSIVE UserChecks(_, _, _, _, _)
UserChecks(s, users, i, perUserCost, today) ==
    IF i > Len(users) THEN [ok |-> TRUE, state |-> s]
    ELSE LET s1 == UserWindow(s, users[i], today)
         IN  IF s1.userDailySponsored[users[i]] + perUserCost <= s1.dailyLimitPerUser
             THEN UserChecks(s1, users, i + 1, perUserCost, today)
             ELSE [ok |-> FALSE, state |-> s1]

\* Step 6, the loop: userDailySponsored[users[i]] += perUserCost.
RECURSIVE UserUpdates(_, _, _, _)
UserUpdates(s, users, i, perUserCost) ==
    IF i > Len(users) THEN s
    ELSE UserUpdates([s EXCEPT !.userDailySponsored[users[i]] = @ + perUserCost],
                     users, i + 1, perUserCost)

\* Not the code: nothing written before the transfer.
EffectsDeferred(s, relayer, users, reimbursement, perUserCost) == s

\* Not the code: step 6 without the global counter.
EffectsNoGlobal(s, relayer, users, reimbursement, perUserCost) ==
    LET s1 == [s EXCEPT !.relayerDailyClaimed[relayer] = @ + reimbursement]
        s2 == UserUpdates(s1, users, 1, perUserCost)
    IN  [s2 EXCEPT !.totalClaimed = @ + reimbursement, !.totalClaimCount = @ + 1]

\* Step 6: update all tracking state.
Effects(s, relayer, users, reimbursement, perUserCost) ==
    LET s1 == [s EXCEPT !.relayerDailyClaimed[relayer] = @ + reimbursement]
        s2 == UserUpdates(s1, users, 1, perUserCost)
    IN  [s2 EXCEPT !.globalDailyClaimed = @ + reimbursement,
                   !.totalClaimed = @ + reimbursement,
                   !.totalClaimCount = @ + 1]

\* Not the code: step 5 left out.
EnoughFundsAlways(bal, amount, reimbursement) == TRUE

\* Not the code: the balance compared with the amount asked for.
EnoughFundsForRequest(bal, amount, reimbursement) == bal >= amount

\* Step 5: address(this).balance >= reimbursement
EnoughFunds(bal, amount, reimbursement) == bal >= reimbursement

ClaimFails(reason, reimbursement, s) ==
    [reverted |-> TRUE, reason |-> reason, reimbursement |-> reimbursement, state |-> s]

\* Not the code: a pause that stops nothing.
neverPaused(s) == TRUE

\* modifier whenNotPaused: require(!paused, ...)
whenNotPaused(s) == ~s.paused

\* modifier onlyWhitelistedRelayer: require(whitelistedRelayers[msg.sender], ...)
onlyWhitelistedRelayer(s, caller) == s.whitelistedRelayers[caller]

\* claim(amount, users) by caller on storage s with pool balance bal, from the
\* modifiers to step 6: whether it reverted and why, and the storage reached.
claimSteps(s, bal, caller, amount, users, today) ==
    LET reimbursement == CapAmount(amount, s.maxPerClaim)
        s1 == RelayerWindow(s, caller, today)
    IN  IF ~onlyWhitelistedRelayer(s, caller) THEN ClaimFails(ErrNotWhitelisted, 0, s)
        ELSE IF ~whenNotPaused(s) THEN ClaimFails(ErrPaused, 0, s)
        ELSE IF s1.relayerDailyClaimed[caller] + reimbursement > s1.dailyLimitPerRelayer
        THEN ClaimFails(ErrRelayerLimit, reimbursement, s1)
        ELSE IF Len(users) = 0 THEN ClaimFails(PanicDivision, reimbursement, s1)
        ELSE LET perUserCost == PerUserCost(reimbursement, Len(users))
                 checked == UserChecks(s1, users, 1, perUserCost, today)
                 s3 == GlobalWindow(checked.state, today)
             IN  IF ~checked.ok THEN ClaimFails(ErrUserLimit, reimbursement, checked.state)
                 ELSE IF s3.globalDailyClaimed + reimbursement > s3.globalDailyLimit
                 THEN ClaimFails(ErrGlobalLimit, reimbursement, s3)
                 ELSE IF ~EnoughFunds(bal, amount, reimbursement)
                 THEN ClaimFails(ErrFunds, reimbursement, s3)
                 ELSE [reverted |-> FALSE, reason |-> "", reimbursement |-> reimbursement,
                       state |-> Effects(s3, caller, users, reimbursement, perUserCost)]

\* Not the code: a failed call keeping the storage it had reached.
RevertedKeepingWrites(entry, reached) == reached

\* The storage after a call that reverted: the storage it was entered with.
Reverted(entry, reached) == entry

\* The value of payable(to).call{value: amount}("") arrives with the call: what
\* the pool has sent to each submitter on the day today, and in all.
Transfer(sent, to, amount, today) ==
    LET current == IF sent.day < today
                   THEN [sent EXCEPT !.day = today, !.amounts = [r \in Submitters |-> 0]]
                   ELSE sent
    IN  [current EXCEPT !.amounts[to] = @ + amount, !.paid = @ + amount, !.count = @ + 1]

ClaimTop == claims[Len(claims)]

\* The call of claim: it fails at once, or reaches step 7 and waits in the
\* transfer to its caller.
EnterClaim(caller, amount, users) ==
    LET run == claimSteps(sponsor, balance, caller, amount, users, Today(timestamp))
        paid == Transfer(received, caller, run.reimbursement, Today(timestamp))
    IN  IF run.reverted
        THEN /\ sponsor' = Reverted(sponsor, run.state)
             /\ outcome' = [NoOutcome EXCEPT
                               !.kind = "claim", !.status = "reverted",
                               !.reason = run.reason, !.caller = caller,
                               !.amount = amount, !.users = users,
                               !.reimbursement = run.reimbursement,
                               !.depth = Len(claims) + 1, !.pre = Ledger,
                               !.reached = run.state, !.today = Today(timestamp)]
             /\ UNCHANGED <<balance, received, claims>>
        ELSE /\ sponsor' = run.state
             /\ balance' = balance - run.reimbursement
             /\ received' = paid
             /\ claims' = Append(claims,
                                 [caller |-> caller, amount |-> amount, users |-> users,
                                  reimbursement |-> run.reimbursement, saved |-> Ledger,
                                  committed |-> [sponsor |-> run.state,
                                                 balance |-> balance - run.reimbursement,
                                                 received |-> paid]])
             /\ outcome' = NoOutcome

\* A transaction: claim called from outside.
claim(caller, amount, users) ==
    /\ claims = <<>>
    /\ outcome.kind = "none"
    /\ EnterClaim(caller, amount, users)
    /\ UNCHANGED <<timestamp, executorVars, relayerVars>>

\* The relayer that is receiving a reimbursement calls claim again.
RecipientReenters(amount, users) ==
    /\ claims # <<>>
    /\ outcome.kind = "none"
    /\ Len(claims) < MaxClaimDepth
    /\ EnterClaim(ClaimTop.caller, amount, users)
    /\ UNCHANGED <<timestamp, executorVars, relayerVars>>

FinishedClaim(f, status, reason) ==
    [NoOutcome EXCEPT !.kind = "claim", !.status = status, !.reason = reason,
                      !.caller = f.caller, !.amount = f.amount, !.users = f.users,
                      !.reimbursement = f.reimbursement, !.depth = Len(claims),
                      !.pre = f.saved, !.reached = f.committed.sponsor,
                      !.committed = f.committed, !.today = Today(timestamp)]

\* The transfer returns sent = true: Claimed is emitted and claim returns.
RecipientAccepts ==
    /\ claims # <<>>
    /\ outcome.kind = "none"
    /\ claims' = SubSeq(claims, 1, Len(claims) - 1)
    /\ outcome' = FinishedClaim(ClaimTop, "ok", "")
    /\ UNCHANGED <<sponsor, balance, received, timestamp, executorVars, relayerVars>>

\* The transfer returns sent = false: require(sent, ...) reverts the claim.
RecipientRejects ==
    /\ claims # <<>>
    /\ outcome.kind = "none"
    /\ sponsor' = Reverted(ClaimTop.saved.sponsor, sponsor)
    /\ balance' = ClaimTop.saved.balance
    /\ received' = ClaimTop.saved.received
    /\ claims' = SubSeq(claims, 1, Len(claims) - 1)
    /\ outcome' = FinishedClaim(ClaimTop, "reverted", ErrTransfer)
    /\ UNCHANGED <<timestamp, executorVars, relayerVars>>

\* deposit() with msg.value = amount.
deposit(amount) ==
    /\ claims = <<>>
    /\ outcome.kind = "none"
    /\ sponsor.totalDeposited + amount <= MaxPool
    /\ IF amount = 0
       THEN /\ outcome' = [NoOutcome EXCEPT !.kind = "deposit", !.status = "reverted",
                              !.reason = ErrZeroDeposit, !.pre = Ledger,
                              !.reached = sponsor, !.today = Today(timestamp)]
            /\ UNCHANGED <<sponsor, balance>>
       ELSE /\ sponsor' = [sponsor EXCEPT !.totalDeposited = @ + amount]
            /\ balance' = balance + amount
            /\ outcome' = [NoOutcome EXCEPT !.kind = "deposit", !.status = "ok",
                              !.amount = amount, !.pre = Ledger,
                              !.today = Today(timestamp)]
    /\ UNCHANGED <<received, timestamp, claims, executorVars, relayerVars>>

\* A call from outside, between two transactions.
Idle == claims = <<>> /\ outcome.kind = "none"

\* What a finished call of the function kind hands back.
Returned(kind, caller, arg, status, reason, result) ==
    [NoOutcome EXCEPT !.kind = kind, !.status = status, !.reason = reason,
                      !.caller = caller, !.arg = arg, !.result = result, !.depth = 1,
                      !.pre = Ledger, !.reached = sponsor, !.today = Today(timestamp)]

\* Not the code: a modifier that lets every caller through.
anyCaller(s, caller) == TRUE

\* modifier onlyOwner: require(msg.sender == owner, ...)
onlyOwner(s, caller) == caller = s.owner

\* An owner-only call by caller with arguments arg: it reverts in the
\* modifier, or reverts with reason when refused is set, or stores next.
OwnerCall(kind, caller, arg, refused, reason, next) ==
    /\ Idle
    /\ IF ~onlyOwner(sponsor, caller)
       THEN /\ outcome' = Returned(kind, caller, arg, "reverted", ErrNotOwner, <<>>)
            /\ UNCHANGED sponsor
       ELSE IF refused
       THEN /\ outcome' = Returned(kind, caller, arg, "reverted", reason, <<>>)
            /\ UNCHANGED sponsor
       ELSE /\ outcome' = Returned(kind, caller, arg, "ok", "", <<>>)
            /\ sponsor' = next

\* setRelayer(relayer, status) called by caller.
setRelayer(caller, relayer, status) ==
    /\ OwnerCall("setRelayer", caller, <<relayer, status>>, FALSE, "",
                 [sponsor EXCEPT !.whitelistedRelayers[relayer] = status])
    /\ UNCHANGED <<balance, received, timestamp, claims, executorVars, relayerVars>>

\* Half a day passes between two transactions.
Tick ==
    /\ claims = <<>>
    /\ outcome.kind = "none"
    /\ timestamp + OneDay \div 2 <= MaxDay * OneDay
    /\ timestamp' = timestamp + OneDay \div 2
    /\ UNCHANGED <<sponsor, balance, received, claims, outcome, executorVars, relayerVars>>

\* The caller takes the result of its finished call.
TakeOutcome ==
    /\ outcome.kind # "none"
    /\ outcome' = NoOutcome
    /\ UNCHANGED <<sponsor, balance, received, timestamp, claims, executorVars, relayerVars>>

\* Arguments of the calls.
ClaimAmounts == {2, 4}
DepositAmounts == {0, 3}
UserLists == UNION {[1..n -> Senders] : n \in 0..MaxUsers}

InitSponsor ==
    /\ nonces = [s \in Senders |-> 0]
    /\ invoked = [p \in Pairs |-> 0]
    /\ logs = <<>>
    /\ delivered = <<>>
    /\ stack = <<>>
    /\ last = NoLast
    /\ \E limits \in LimitChoices : SponsorDeployed(limits)

NextSponsor ==
    \/ TakeOutcome
    \/ \E c \in (IF claims = <<>> /\ outcome.kind = "none" THEN Submitters ELSE {}) :
          \E amount \in ClaimAmounts, users \in UserLists : claim(c, amount, users)
    \/ \E amount \in ClaimAmounts :
          \E users \in (IF claims = <<>> THEN {} ELSE {ClaimTop.users}) :
              RecipientReenters(amount, users)
    \/ RecipientAccepts
    \/ RecipientRejects
    \/ \E amount \in DepositAmounts : deposit(amount)
    \/ \E c \in {Deployer, "relayer"}, status \in BOOLEAN :
          setRelayer(c, "relayer2", status)
    \/ Tick

SpecSponsor == InitSponsor /\ [][NextSponsor]_vars

\* ------------------------------------------ GasSponsor: views and the owner
ErrZeroOwner == "GasSponsor: zero address"

\* Not the code: the pre-check without its balance test.
estimateReimbursementNoBalance(s, bal, amount, relayer, users, today) ==
    LET reimbursement == CapAmount(amount, s.maxPerClaim)
        relayerClaimed == IF s.relayerLastClaimDay[relayer] < today
                          THEN 0 ELSE s.relayerDailyClaimed[relayer]
        globalClaimed == IF s.globalLastClaimDay < today THEN 0 ELSE s.globalDailyClaimed
        userClaimed(u) == IF s.userLastSponsorDay[u] < today
                          THEN 0 ELSE s.userDailySponsored[u]
        no == [reverted |-> FALSE, reason |-> "", result |-> <<0, FALSE>>]
    IN  IF relayerClaimed + reimbursement > s.dailyLimitPerRelayer THEN no
        ELSE IF globalClaimed + reimbursement > s.globalDailyLimit THEN no
        ELSE IF Len(users) = 0
        THEN [reverted |-> TRUE, reason |-> PanicDivision, result |-> <<>>]
        ELSE IF \E i \in 1..Len(users) :
                   userClaimed(users[i]) + PerUserCost(reimbursement, Len(users))
                       > s.dailyLimitPerUser
        THEN no
        ELSE [reverted |-> FALSE, reason |-> "", result |-> <<reimbursement, TRUE>>]

\* estimateReimbursement(amount, relayer, users) on storage s with pool balance
\* bal: the pair it returns, or the panic of its division. Its tests run in the
\* order balance, relayer, global, users; none of them writes.
estimateReimbursement(s, bal, amount, relayer, users, today) ==
    LET reimbursement == CapAmount(amount, s.maxPerClaim)
        relayerClaimed == IF s.relayerLastClaimDay[relayer] < today
                          THEN 0 ELSE s.relayerDailyClaimed[relayer]
        globalClaimed == IF s.globalLastClaimDay < today THEN 0 ELSE s.globalDailyClaimed
        userClaimed(u) == IF s.userLastSponsorDay[u] < today
                          THEN 0 ELSE s.userDailySponsored[u]
        no == [reverted |-> FALSE, reason |-> "", result |-> <<0, FALSE>>]
    IN  IF bal < reimbursement THEN no
        ELSE IF relayerClaimed + reimbursement > s.dailyLimitPerRelayer THEN no
        ELSE IF globalClaimed + reimbursement > s.globalDailyLimit THEN no
        ELSE IF Len(users) = 0
        THEN [reverted |-> TRUE, reason |-> PanicDivision, result |-> <<>>]
        ELSE IF \E i \in 1..Len(users) :
                   userClaimed(users[i]) + PerUserCost(reimbursement, Len(users))
                       > s.dailyLimitPerUser
        THEN no
        ELSE [reverted |-> FALSE, reason |-> "", result |-> <<reimbursement, TRUE>>]

\* limit > claimed ? limit - claimed : 0
Remaining(limit, claimed) == IF limit > claimed THEN limit - claimed ELSE 0

\* Not the code: the stored counter read without looking at its day.
getRelayerDailyRemainingStale(s, relayer, today) ==
    Remaining(s.dailyLimitPerRelayer, s.relayerDailyClaimed[relayer])

getRelayerDailyRemaining(s, relayer, today) ==
    LET claimed == IF s.relayerLastClaimDay[relayer] < today
                   THEN 0 ELSE s.relayerDailyClaimed[relayer]
    IN  Remaining(s.dailyLimitPerRelayer, claimed)

getUserDailyRemaining(s, user, today) ==
    LET claimed == IF s.userLastSponsorDay[user] < today
                   THEN 0 ELSE s.userDailySponsored[user]
    IN  Remaining(s.dailyLimitPerUser, claimed)

getGlobalDailyRemaining(s, today) ==
    LET claimed == IF s.globalLastClaimDay < today THEN 0 ELSE s.globalDailyClaimed
    IN  Remaining(s.globalDailyLimit, claimed)

\* The view call estimateReimbursement(amount, relayer, users).
estimate(amount, relayer, users) ==
    /\ Idle
    /\ LET e == estimateReimbursement(sponsor, balance, amount, relayer, users,
                                      Today(timestamp))
       IN  outcome' = [Returned("estimateReimbursement", relayer, <<amount, relayer, users>>,
                                IF e.reverted THEN "reverted" ELSE "ok", e.reason, e.result)
                          EXCEPT !.amount = amount, !.users = users]
    /\ UNCHANGED <<sponsor, balance, received, timestamp, claims, executorVars, relayerVars>>

\* The three view calls get...DailyRemaining.
remaining ==
    /\ Idle
    /\ \/ \E r \in Submitters :
             outcome' = Returned("getRelayerDailyRemaining", r, <<r>>, "ok", "",
                                 <<getRelayerDailyRemaining(sponsor, r, Today(timestamp))>>)
       \/ \E u \in Senders :
             outcome' = Returned("getUserDailyRemaining", u, <<u>>, "ok", "",
                                 <<getUserDailyRemaining(sponsor, u, Today(timestamp))>>)
       \/ outcome' = Returned("getGlobalDailyRemaining", "", <<>>, "ok", "",
                              <<getGlobalDailyRemaining(sponsor, Today(timestamp))>>)
    /\ UNCHANGED <<sponsor, balance, received, timestamp, claims, executorVars, relayerVars>>

setLimits(caller, limits) ==
    /\ OwnerCall("setLimits", caller, <<limits>>, FALSE, "",
                 [sponsor EXCEPT !.maxPerClaim = limits.maxPerClaim,
                                 !.dailyLimitPerRelayer = limits.dailyLimitPerRelayer,
                                 !.dailyLimitPerUser = limits.dailyLimitPerUser,
                                 !.globalDailyLimit = limits.globalDailyLimit])
    /\ UNCHANGED <<balance, received, timestamp, claims, executorVars, relayerVars>>

setPaused(caller, paused) ==
    /\ OwnerCall("setPaused", caller, <<paused>>, FALSE, "",
                 [sponsor EXCEPT !.paused = paused])
    /\ UNCHANGED <<balance, received, timestamp, claims, executorVars, relayerVars>>

transferOwnership(caller, newOwner) ==
    /\ OwnerCall("transferOwnership", caller, <<newOwner>>, newOwner = ZeroAddress,
                 ErrZeroOwner, [sponsor EXCEPT !.owner = newOwner])
    /\ UNCHANGED <<balance, received, timestamp, claims, executorVars, relayerVars>>

\* Not the code: an emergencyWithdraw that is stopped by the pause.
emergencyWithdrawUnlessPaused(caller, sent) ==
    /\ OwnerCall("emergencyWithdraw", caller, <<balance, sent>>, ~sent \/ sponsor.paused,
                 IF sponsor.paused THEN ErrPaused ELSE ErrTransfer, sponsor)
    /\ balance' = IF onlyOwner(sponsor, caller) /\ sent /\ ~sponsor.paused THEN 0 ELSE balance
    /\ received' = IF onlyOwner(sponsor, caller) /\ sent /\ ~sponsor.paused
                   THEN [received EXCEPT !.withdrawn = @ + balance]
                   ELSE received
    /\ UNCHANGED <<timestamp, claims, executorVars, relayerVars>>

\* emergencyWithdraw(): the whole balance goes to the owner, whose account
\* takes it (sent) or refuses it; arg records the balance and that answer.
emergencyWithdraw(caller, sent) ==
    /\ OwnerCall("emergencyWithdraw", caller, <<balance, sent>>, ~sent, ErrTransfer, sponsor)
    /\ balance' = IF onlyOwner(sponsor, caller) /\ sent THEN 0 ELSE balance
    /\ received' = IF onlyOwner(sponsor, caller) /\ sent
                   THEN [received EXCEPT !.withdrawn = @ + balance]
                   ELSE received
    /\ UNCHANGED <<timestamp, claims, executorVars, relayerVars>>

\* Not the code: a receive() that keeps no account of what arrives.
receiveUncounted(value) ==
    /\ Idle
    /\ sponsor.totalDeposited + value <= MaxPool
    /\ balance' = balance + value
    /\ outcome' = [Returned("receive", "", <<value>>, "ok", "", <<>>) EXCEPT !.amount = value]
    /\ UNCHANGED <<sponsor, received, timestamp, claims, executorVars, relayerVars>>

\* receive(): value sent to the pool without calling a function.
receive(value) ==
    /\ Idle
    /\ sponsor.totalDeposited + value <= MaxPool
    /\ sponsor' = [sponsor EXCEPT !.totalDeposited = @ + value]
    /\ balance' = balance + value
    /\ outcome' = [Returned("receive", "", <<value>>, "ok", "", <<>>) EXCEPT !.amount = value]
    /\ UNCHANGED <<received, timestamp, claims, executorVars, relayerVars>>

\* The pool with its view functions: claims, deposits, the owner pausing the
\* pool, and the view calls made between those transactions.
NextViews ==
    \/ TakeOutcome
    \/ \E c \in (IF Idle THEN Submitters ELSE {}) :
          \E amount \in ClaimAmounts, users \in UserLists : claim(c, amount, users)
    \/ RecipientAccepts
    \/ RecipientRejects
    \/ \E amount \in DepositAmounts : deposit(amount)
    \/ \E amount \in (IF Idle THEN ClaimAmounts ELSE {}) :
          \E r \in Submitters, users \in UserLists : estimate(amount, r, users)
    \/ remaining
    \/ \E p \in BOOLEAN : setPaused(Deployer, p)
    \/ Tick

SpecViews == InitSponsor /\ [][NextViews]_vars

\* Ether sent to the pool's address without a call of its code: the balance
\* of a contract that self-destructs naming the pool, or a block reward paid
\* to it. No function of the pool runs.
ForcedEther(value) ==
    /\ Idle
    /\ received.forced + value <= MaxForced
    /\ balance' = balance + value
    /\ received' = [received EXCEPT !.forced = @ + value]
    /\ UNCHANGED <<sponsor, timestamp, claims, outcome, executorVars, relayerVars>>

\* Accounts that call the owner's functions, accounts ownership is moved to,
\* and the beneficiaries named by the claims made around those calls.
Owner2 == "owner2"
AdminCallers == {Deployer, Owner2}
NewOwners == {Owner2, ZeroAddress}
AdminUserLists == {<<"alice">>, <<"alice", "bob">>}
ForcedAmounts == {1}
AdminLimits == {DeployedLimits, [DeployedLimits EXCEPT !.dailyLimitPerUser = 8]}

InitAdmin ==
    /\ nonces = [s \in Senders |-> 0]
    /\ invoked = [p \in Pairs |-> 0]
    /\ logs = <<>>
    /\ delivered = <<>>
    /\ stack = <<>>
    /\ last = NoLast
    /\ SponsorDeployed(DeployedLimits)

NextAdmin ==
    \/ TakeOutcome
    \/ \E c \in (IF Idle THEN Submitters ELSE {}) :
          \E amount \in ClaimAmounts, users \in AdminUserLists : claim(c, amount, users)
    \/ RecipientAccepts
    \/ RecipientRejects
    \/ \E amount \in DepositAmounts : deposit(amount)
    \/ \E value \in DepositAmounts : receive(value)
    \/ \E c \in AdminCallers, status \in BOOLEAN : setRelayer(c, "relayer2", status)
    \/ \E c \in AdminCallers, limits \in AdminLimits : setLimits(c, limits)
    \/ \E c \in AdminCallers, p \in BOOLEAN : setPaused(c, p)
    \/ \E c \in AdminCallers, n \in NewOwners : transferOwnership(c, n)
    \/ \E c \in AdminCallers, sent \in BOOLEAN : emergencyWithdraw(c, sent)
    \/ \E value \in ForcedAmounts : ForcedEther(value)

SpecAdmin == InitAdmin /\ [][NextAdmin]_vars

\* ------------------------------------------------------------ the relayer
\* The Relayer class of deploy-helper.js, as server.js runs it: one object,
\* its calls of addRequest (one per POST /api/relay) and of flushBatch (from
\* addRequest when the queue is full, from the timer otherwise). JavaScript
\* runs a handler without interruption up to its next await: an action is
\* one such section. The chain the relayer talks to is the BatchExecutor
\* (nonces) and the GasSponsor (sponsor, balance) of the model above.
RelayerWallet == "relayer"

\* receipt.gasUsed * gasPrice of an executed batch, in wei.
GasCosts == {2, 4}

Request(from, nonce) ==
    [from |-> from, to |-> "token", value |-> 0, gas |-> 200000, nonce |-> nonce,
     data |-> "transfer1"]

\* signBatchRequests: the sender's nonce is read once, and request i of the
\* batch is signed with nonce currentNonce + i.
signBatchRequests(signer, currentNonce, count) ==
    [i \in 1..count |->
        LET request == Request(signer, currentNonce + i - 1)
        IN  [request |-> request, signature |-> ValidSig(request)]]

\* What the front ends post: the two requests alice signed as one batch,
\* one request of bob, alice's first request signed with bob's key, and
\* alice's first request with a 64-byte signature.
Posted ==
    {signBatchRequests("alice", 0, 2)[i] : i \in 1..2}
        \cup {signBatchRequests("bob", 0, 1)[1]}
        \cup {[request |-> Request("alice", 0),
               signature |-> signForwardRequest("bob", ThisDomain, Request("alice", 0))],
              [request |-> Request("alice", 0), signature |-> ShortSig]}

ErrNotAdmitted == "Invalid signature or nonce"

\* A call of addRequest waiting in `await this.batchExecutor.verify(...)`.
AddTask(id, request, signature) ==
    [kind |-> "addRequest", pc |-> "verify", id |-> id,
     requests |-> <<[id |-> id, request |-> request]>>,
     signatures |-> <<[id |-> id, signature |-> signature]>>]

\* A call of flushBatch holding its copy of the queue; id is the call of
\* addRequest that awaits it, 0 when the timer started it.
FlushTask(requests, signatures, id) ==
    [kind |-> "flushBatch", pc |-> "estimateGas", id |-> id,
     requests |-> requests, signatures |-> signatures]

Ids(entries) == {entries[i].id : i \in 1..Len(entries)}

\* What a handler hands to the call of addRequest that awaits it.
Reply(id, answer) == IF id = 0 THEN reply ELSE [id |-> id, answer |-> answer]

\* BatchExecutor.executeBatch(requests, signatures) on the nonces ns, from
\* request i on: every request must verify against the nonces the earlier
\* ones left, or the whole transaction reverts.
RECURSIVE RunBatch(_, _, _, _)
RunBatch(ns, requests, signatures, i) ==
    IF i > Len(requests) THEN [reverted |-> FALSE, nonces |-> ns]
    ELSE LET v == verify(requests[i].request, signatures[i].signature, ns)
         IN  IF v.reverted \/ ~v.value THEN [reverted |-> TRUE, nonces |-> ns]
             ELSE RunBatch(Consume(ns, requests[i].request), requests, signatures, i + 1)

\* [...new Set(requests.map(req => req.from))], from request i on.
RECURSIVE UniqueUsers(_, _, _)
UniqueUsers(requests, i, seen) ==
    IF i > Len(requests) THEN seen
    ELSE LET from == requests[i].request.from
         IN  UniqueUsers(requests, i + 1,
                         IF \E j \in 1..Len(seen) : seen[j] = from THEN seen
                         ELSE Append(seen, from))

\* Not the code: an admission that ignores what verify returned.
AdmittedAlways(v) == TRUE

\* addRequest, lines 192-196: the pair is admitted when verify returned true.
Admitted(v) == ~v.reverted /\ v.value

\* Not the code: a failed batch put back behind the requests that arrived since.
RequeuedAtBack(batch, queue) == queue \o batch

\* flushBatch, lines 293-294: [...requests, ...this.pendingRequests].
Requeued(batch, queue) == batch \o queue

\* addRequest(request, signature) up to its await of verify.
addRequest(request, signature) ==
    /\ posts' = posts + 1
    /\ tasks' = tasks \cup {AddTask(posts + 1, request, signature)}
    /\ UNCHANGED <<pendingRequests, pendingSignatures, finished, reply, executed,
                   executorVars, sponsorVars>>

\* addRequest from the answer of verify on: it throws, or pushes the pair on
\* both queues and, when the queue has reached maxBatchSize, calls flushBatch,
\* which takes the whole queue and waits for estimateGas.
verifyReturns(t) ==
    /\ t \in tasks
    /\ t.kind = "addRequest"
    /\ LET v == verify(t.requests[1].request, t.signatures[1].signature, nonces)
           requests == pendingRequests \o t.requests
           signatures == pendingSignatures \o t.signatures
       IN  IF ~Admitted(v)
           THEN /\ tasks' = tasks \ {t}
                /\ reply' = Reply(t.id, IF v.reverted THEN v.reason ELSE ErrNotAdmitted)
                /\ UNCHANGED <<pendingRequests, pendingSignatures>>
           ELSE IF Len(requests) >= maxBatchSize
           THEN /\ pendingRequests' = <<>>
                /\ pendingSignatures' = <<>>
                /\ tasks' = (tasks \ {t}) \cup {FlushTask(requests, signatures, t.id)}
                /\ UNCHANGED reply
           ELSE /\ pendingRequests' = requests
                /\ pendingSignatures' = signatures
                /\ tasks' = tasks \ {t}
                /\ reply' = Reply(t.id, "queued")
    /\ UNCHANGED <<finished, posts, executed, executorVars, sponsorVars>>

\* The callback of startAutoFlush: flushBatch when the queue is not empty.
timerFlush ==
    /\ Len(pendingRequests) > 0
    /\ pendingRequests' = <<>>
    /\ pendingSignatures' = <<>>
    /\ tasks' = tasks \cup {FlushTask(pendingRequests, pendingSignatures, 0)}
    /\ UNCHANGED <<finished, posts, reply, executed, executorVars, sponsorVars>>

\* The catch block of flushBatch: the batch goes back on both queues and the
\* error is thrown to the caller.
catch(f) ==
    /\ pendingRequests' = Requeued(f.requests, pendingRequests)
    /\ pendingSignatures' = Requeued(f.signatures, pendingSignatures)
    /\ tasks' = tasks \ {f}
    /\ reply' = Reply(f.id, "flush failed")

\* The answer to executeBatch.estimateGas: the node simulates the batch on
\* the nonces of the moment, or does not answer.
estimateGas(f, responds) ==
    /\ f \in tasks
    /\ f.kind = "flushBatch"
    /\ f.pc = "estimateGas"
    /\ IF responds /\ ~RunBatch(nonces, f.requests, f.signatures, 1).reverted
       THEN /\ tasks' = (tasks \ {f}) \cup {[f EXCEPT !.pc = "executeBatch"]}
            /\ UNCHANGED <<pendingRequests, pendingSignatures, reply>>
       ELSE catch(f)
    /\ UNCHANGED <<finished, posts, executed, executorVars, sponsorVars>>

\* executeBatch is sent and tx.wait() returns: the transaction was mined on
\* the nonces of that moment; a reverted transaction makes wait() throw.
mined(f) ==
    /\ f \in tasks
    /\ f.kind = "flushBatch"
    /\ f.pc = "executeBatch"
    /\ LET run == RunBatch(nonces, f.requests, f.signatures, 1)
       IN  IF run.reverted
           THEN catch(f) /\ UNCHANGED <<nonces, executed>>
           ELSE /\ nonces' = run.nonces
                /\ executed' = executed \cup Ids(f.requests)
                /\ tasks' = (tasks \ {f}) \cup {[f EXCEPT !.pc = "getTransaction"]}
                /\ UNCHANGED <<pendingRequests, pendingSignatures, reply>>
    /\ UNCHANGED <<invoked, logs, delivered, stack, last, finished, posts, sponsorVars>>

\* What flushBatch returns for a batch it saw executed.
Finish(f, result) ==
    /\ finished' = Append(finished, [result EXCEPT !.ids = Ids(f.requests)])
    /\ tasks' = tasks \ {f}
    /\ reply' = Reply(f.id, "executed")
    /\ UNCHANGED <<pendingRequests, pendingSignatures>>

\* Besides the fields of the code: the gas cost the call computed, what became
\* of the reimbursement claim, whether claim(gasCost, users) would have
\* succeeded on the pool as it was, and what the pool paid.
NoResult ==
    [ids |-> {}, status |-> "executed", warning |-> FALSE, gasCost |-> 0,
     claim |-> "none", payable |-> FALSE, paid |-> 0]

\* The answer to provider.getTransaction(tx.hash): the transaction with its
\* gas price, the transaction without one, or no answer.
GasPriceAnswers == {"priced", "unpriced", "fails"}

getTransaction(f, answer) ==
    /\ f \in tasks
    /\ f.kind = "flushBatch"
    /\ f.pc = "getTransaction"
    /\ CASE answer = "priced" ->
                /\ tasks' = (tasks \ {f}) \cup {[f EXCEPT !.pc = "claimReimbursement"]}
                /\ UNCHANGED <<pendingRequests, pendingSignatures, reply, finished>>
         [] answer = "unpriced" ->
                Finish(f, [NoResult EXCEPT !.warning = TRUE])
         [] OTHER -> catch(f) /\ UNCHANGED finished
    /\ UNCHANGED <<posts, executed, executorVars, sponsorVars>>

\* claimReimbursement(gasCost, users) and the return of flushBatch: the pool
\* balance is read and, when it covers gasCost, claim(gasCost, users) is sent
\* and waited for; every error is caught and logged.
claimReimbursement(f, gasCost, responds) ==
    /\ f \in tasks
    /\ f.kind = "flushBatch"
    /\ f.pc = "claimReimbursement"
    /\ LET users == UniqueUsers(f.requests, 1, <<>>)
           run == claimSteps(sponsor, balance, RelayerWallet, gasCost, users,
                             Today(timestamp))
           result == [NoResult EXCEPT !.gasCost = gasCost, !.payable = ~run.reverted]
       IN  IF ~responds
           THEN /\ Finish(f, [result EXCEPT !.claim = "error"])
                /\ UNCHANGED <<sponsor, balance, received>>
           ELSE IF balance >= gasCost
           THEN IF run.reverted
                THEN /\ Finish(f, [result EXCEPT !.claim = "reverted"])
                     /\ UNCHANGED <<sponsor, balance, received>>
                ELSE /\ Finish(f, [result EXCEPT !.claim = "claimed",
                                                 !.paid = run.reimbursement])
                     /\ sponsor' = run.state
                     /\ balance' = balance - run.reimbursement
                     /\ received' = Transfer(received, RelayerWallet, run.reimbursement,
                                             Today(timestamp))
           ELSE /\ Finish(f, [result EXCEPT !.claim = "skipped"])
                /\ UNCHANGED <<sponsor, balance, received>>
    /\ UNCHANGED <<timestamp, claims, outcome, posts, executed, executorVars>>

\* A sender has one of its signed requests executed without this relayer.
executedElsewhere(item) ==
    /\ Admitted(verify(item.request, item.signature, nonces))
    /\ nonces' = Consume(nonces, item.request)
    /\ UNCHANGED <<invoked, logs, delivered, stack, last, sponsorVars, relayerVars>>

\* The pool the relayer claims from: deployed, the relayer whitelisted, and
\* funded with one deposit.
PoolFunding == 3

InitRelayer ==
    /\ nonces = [s \in Senders |-> 0]
    /\ invoked = [p \in Pairs |-> 0]
    /\ logs = <<>>
    /\ delivered = <<>>
    /\ stack = <<>>
    /\ last = NoLast
    /\ sponsor = [constructor(Deployer, DeployedLimits) EXCEPT
                     !.whitelistedRelayers[RelayerWallet] = TRUE,
                     !.totalDeposited = PoolFunding]
    /\ balance = PoolFunding
    /\ received = NoneReceived
    /\ timestamp = OneDay
    /\ claims = <<>>
    /\ outcome = NoOutcome
    /\ RelayerConstructed

\* The senders whose request is executed without this relayer: alice, with
\* the first request she signed.
Elsewhere == {signBatchRequests("alice", 0, 1)[1]}

\* POST /api/relay of server.js: the handler calls addRequest with the pair
\* of the body.
postRelay(item) ==
    /\ posts < MaxPosts
    /\ addRequest(item.request, item.signature)

\* The same with one more request posted in a run.
postRelayBusy(item) ==
    /\ posts < MaxPosts + 1
    /\ addRequest(item.request, item.signature)

NextRelayer ==
    \/ \E item \in Posted : postRelay(item)
    \/ \E t \in tasks : verifyReturns(t)
    \/ timerFlush
    \/ \E f \in tasks, responds \in BOOLEAN : estimateGas(f, responds)
    \/ \E f \in tasks : mined(f)
    \/ \E f \in tasks, answer \in GasPriceAnswers : getTransaction(f, answer)
    \/ \E f \in tasks, gasCost \in GasCosts, responds \in BOOLEAN :
           claimReimbursement(f, gasCost, responds)
    \/ \E item \in Elsewhere : executedElsewhere(item)

SpecRelayer == InitRelayer /\ [][NextRelayer]_vars

\* The same relayer with one more request posted.
NextRelayerBusy ==
    \/ \E item \in Posted : postRelayBusy(item)
    \/ \E t \in tasks : verifyReturns(t)
    \/ timerFlush
    \/ \E f \in tasks, responds \in BOOLEAN : estimateGas(f, responds)
    \/ \E f \in tasks : mined(f)
    \/ \E f \in tasks, answer \in GasPriceAnswers : getTransaction(f, answer)
    \/ \E f \in tasks, gasCost \in GasCosts, responds \in BOOLEAN :
           claimReimbursement(f, gasCost, responds)
    \/ \E item \in Elsewhere : executedElsewhere(item)

SpecRelayerBusy == InitRelayer /\ [][NextRelayerBusy]_vars

\* The relayer with its timer firing again and again and a chain that answers
\* every call: a handler waiting in an await is resumed, and no call to the
\* node fails.
Responding == {"priced", "unpriced"}

NextRelayerLive ==
    \/ \E item \in Posted : postRelay(item)
    \/ \E t \in tasks : verifyReturns(t)
    \/ timerFlush
    \/ \E f \in tasks : estimateGas(f, TRUE)
    \/ \E f \in tasks : mined(f)
    \/ \E f \in tasks, answer \in Responding : getTransaction(f, answer)
    \/ \E f \in tasks, gasCost \in GasCosts : claimReimbursement(f, gasCost, TRUE)
    \/ \E item \in Elsewhere : executedElsewhere(item)

SpecRelayerLive ==
    /\ InitRelayer
    /\ [][NextRelayerLive]_vars
    /\ SF_vars(timerFlush)
    /\ WF_vars(\E t \in tasks : verifyReturns(t))
    /\ WF_vars(\E f \in tasks : estimateGas(f, TRUE))
    /\ WF_vars(\E f \in tasks : mined(f))
    /\ WF_vars(\E f \in tasks, answer \in Responding : getTransaction(f, answer))
    /\ WF_vars(\E f \in tasks, gasCost \in GasCosts : claimReimbursement(f, gasCost, TRUE))

\* ------------------------------------------------------------------ claims
\* sig is the signature req.from made over exactly req under this instance's domain.
SignedBySender(req, sig) == sig = signForwardRequest(req.from, ThisDomain, req)

Min(a, b) == IF a < b THEN a ELSE b

\* The events of the latest finished call, from its entry on.
EventsOfLast == SubSeq(last.logs, Len(last.pre.logs) + 1, Len(last.logs))

\* The events the latest finished call emitted itself (not its nested calls).
OwnEventsOfLast ==
    LET IsOwn(e) == e.depth = last.depth
    IN  SelectSeq(EventsOfLast, IsOwn)

ConsumptionsOf(events, s) ==
    Cardinality({k \in 1..Len(events) :
                    events[k].type = "RequestExecuted" /\ events[k].from = s})

\* The ledger and the targets are as the latest finished call found them.
UnchangedSinceEntry ==
    /\ nonces = last.pre.nonces
    /\ invoked = last.pre.invoked
    /\ logs = last.pre.logs
    /\ delivered = last.pre.delivered
    /\ last.delivered = last.pre.delivered

\* C1: an executeBatch call in which verify failed for the item at some
\* position (reached with a nonce that is not the sender's current one, or
\* carrying a signature that is not the sender's over the request) is rejected,
\* and every nonce, every target effect and every event is as before the call.
C1_InvalidItemRejectsBatch ==
    last.kind = "batch" =>
        LET n == Min(Len(last.requests), Len(last.signatures))
            invalid ==
                \/ last.failedAt # 0
                \/ \E j \in 1..n : ~SignedBySender(last.requests[j], last.signatures[j])
                \/ /\ n >= 1
                   /\ last.requests[1].nonce # last.pre.nonces[last.requests[1].from]
        IN  invalid => last.status = "reverted" /\ UnchangedSinceEntry

\* A call rejected at its second item, whose first item had been consumed and
\* invoked with success.
C1_Witness ==
    /\ last.kind = "batch"
    /\ last.depth = 1
    /\ last.status = "reverted"
    /\ last.failedAt = 2
    /\ last.reason = ErrInvalid
    /\ SignedBySender(last.requests[1], last.signatures[1])

\* C2: when a batch completes, each sender's nonce has risen by exactly one per
\* consumption recorded for that sender, and the batch itself consumed each of
\* its requests once, whatever the targets returned.
C2_NonceRisesByOne ==
    (last.kind = "batch" /\ last.status = "ok") =>
        \A s \in Senders :
            /\ nonces[s] = last.pre.nonces[s] + ConsumptionsOf(EventsOfLast, s)
            /\ ConsumptionsOf(OwnEventsOfLast, s)
                  = Cardinality({j \in 1..Len(last.requests) : last.requests[j].from = s})

\* A completed batch of one request whose target failed: the nonce rose by one.
C2_Witness ==
    /\ last.kind = "batch"
    /\ last.status = "ok"
    /\ last.depth = 1
    /\ last.results = <<FALSE>>
    /\ nonces[last.requests[1].from] = last.pre.nonces[last.requests[1].from] + 1

\* C3: an executeBatch call holding a (request, signature) pair that was
\* consumed before is rejected, by the nonce comparison of verify when that pair
\* is the item the call fails on, and the ledger is as before the call.
C3_ReplayRejected ==
    (last.kind = "batch" /\ Len(last.requests) = Len(last.signatures)) =>
        \A j \in 1..Len(last.requests) :
            LET req == last.requests[j]
            IN  (/\ SignedBySender(req, last.signatures[j])
                 /\ last.pre.invoked[<<req.from, req.nonce>>] >= 1)
                    => /\ last.status = "reverted"
                       /\ nonces = last.pre.nonces
                       /\ invoked = last.pre.invoked
                       /\ j = 1 => last.failedAt = 1
                       /\ last.failedAt = j =>
                            /\ last.reason = ErrInvalid
                            /\ req.nonce # last.pre.nonces[req.from]

\* A consumed pair resubmitted alone in a transaction, and rejected.
C3_Witness ==
    /\ last.kind = "batch"
    /\ last.depth = 1
    /\ Len(last.requests) = 1
    /\ Len(last.signatures) = 1
    /\ SignedBySender(last.requests[1], last.signatures[1])
    /\ last.pre.invoked[<<last.requests[1].from, last.requests[1].nonce>>] = 1
    /\ last.status = "reverted"
    /\ last.reason = ErrInvalid

\* The ledger as committed: the state between transactions, and during one the
\* state it started from.
Committed ==
    IF stack = <<>> THEN [nonces |-> nonces, invoked |-> invoked]
    ELSE [nonces |-> stack[1].saved.nonces, invoked |-> stack[1].saved.invoked]

\* C4: no (sender, nonce) pair is ever consumed and invoked twice, in
\* transactions and in calls nested in a target invocation; a committed nonce
\* never decreases, a consumed pair stays consumed and never verifies again.
C4_ConsumedAtMostOnce ==
    [][/\ \A p \in Pairs : invoked'[p] <= 1
       /\ \A s \in Senders : Committed'.nonces[s] >= Committed.nonces[s]
       /\ \A p \in Pairs : Committed.invoked[p] = 1 => Committed'.invoked[p] = 1
       /\ \A r \in BatchRequests :
            Committed.invoked[<<r.from, r.nonce>>] = 1
                => ~verify(r, ValidSig(r), Committed'.nonces).value]_vars

\* A transaction has completed in which a nested executeBatch consumed a
\* request of the sender whose target was being invoked.
C4_Witness ==
    /\ stack = <<>>
    /\ last.kind = "batch"
    /\ last.status = "ok"
    /\ \E k \in 1..Len(last.logs) :
          last.logs[k].type = "BatchExecuted" /\ last.logs[k].depth = 2
    /\ \E s \in Senders : nonces[s] = 2 /\ invoked[<<s, 0>>] = 1 /\ invoked[<<s, 1>>] = 1

\* C5: verify returns true exactly when the signature is the one req.from made
\* over req under this instance's domain and req.nonce is the ledger's nonce of
\* req.from; a well-formed signature by another key, over a request differing
\* in a field, or under another domain makes it return false.
C5_VerifyIff ==
    last.kind = "verify" =>
        LET req == last.requests[1]
            sig == last.signatures[1]
        IN  /\ (last.status = "ok" /\ last.value)
                <=> (SignedBySender(req, sig) /\ req.nonce = getNonce(nonces, req.from))
            /\ (sig.length = SigLength /\ sig.signer # ZeroAddress
                    /\ ~SignedBySender(req, sig))
                => (last.status = "ok" /\ ~last.value)

\* verify has returned true for a request with a nonce above zero.
C5_Witness ==
    /\ last.kind = "verify"
    /\ last.status = "ok"
    /\ last.value
    /\ last.requests[1].nonce = 1
    /\ last.requests[1].gas = 100000

\* C6: a verify call changes neither the ledger nor anything else, and a
\* verify call that follows a verify call with the same arguments returns the
\* same result.
C6_VerifyReadsOnly ==
    [][last'.kind = "verify" =>
        /\ UNCHANGED <<nonces, invoked, logs, delivered, stack>>
        /\ (/\ last.kind = "verify"
            /\ last.requests = last'.requests
            /\ last.signatures = last'.signatures)
                => (last'.status = last.status /\ last'.value = last.value)]_vars

\* verify returned true between transactions and the request is still valid.
C6_Witness ==
    /\ last.kind = "verify"
    /\ last.value
    /\ stack = <<>>
    /\ nonces[last.requests[1].from] = 1
    /\ last.requests[1].nonce = 1

\* C7: while the target of request (S, n) has control, the ledger entry of S
\* was n+1 when the call began and is at least n+1 since, verify of that
\* request returns false, and a nested executeBatch holding it is rejected.
C7_ConsumedBeforeInvocation ==
    \A k \in 1..Len(stack) :
        stack[k].pc = "call" =>
            LET req == stack[k].requests[stack[k].i]
                sig == stack[k].signatures[stack[k].i]
            IN  /\ stack[k].callSaved.nonces[req.from] = req.nonce + 1
                /\ getNonce(nonces, req.from) >= req.nonce + 1
                /\ ~verify(req, sig, nonces).value
                /\ (last.kind = "verify" /\ last.requests = <<req>>) => ~last.value
                /\ (/\ last.kind = "batch"
                    /\ last.depth > k
                    /\ \E j \in 1..Len(last.requests) : last.requests[j] = req)
                        => last.status = "reverted"

\* A target handed the request being executed back to executeBatch, and the
\* nested call was rejected.
C7_Witness ==
    /\ Len(stack) = 1
    /\ Top.pc = "call"
    /\ last.kind = "batch"
    /\ last.depth = 2
    /\ last.requests = <<Top.requests[Top.i]>>
    /\ last.signatures = <<Top.signatures[Top.i]>>
    /\ last.status = "reverted"
    /\ last.reason = ErrInvalid

\* C8: a call is rejected only by the length checks or by verify, never by a
\* failing target; a completed call verified every item, and each item whose
\* target failed has result false, its nonce consumed and its invocation made,
\* while each item whose target succeeded has its envelope delivered.
C8_TargetFailureTolerated ==
    last.kind = "batch" =>
        /\ last.status = "reverted"
              => last.reason \in {ErrLength, ErrEmpty, ErrInvalid, ErrSigLength, ErrSig}
        /\ last.status = "ok" =>
              /\ last.verified = Len(last.requests)
              /\ Len(last.results) = Len(last.requests)
              /\ \A j \in 1..Len(last.requests) :
                    LET req == last.requests[j]
                    IN  /\ getNonce(nonces, req.from) >= req.nonce + 1
                        /\ invoked[<<req.from, req.nonce>>] = 1
                        /\ last.results[j] =>
                              \E k \in 1..Len(last.delivered) :
                                  last.delivered[k] = Executed(Envelope(req))

\* A batch completed whose first target failed and whose second succeeded.
C8_Witness ==
    /\ last.kind = "batch"
    /\ last.status = "ok"
    /\ last.results = <<FALSE, TRUE>>
    /\ Len(last.delivered) = 1

\* C9: an executeBatch call with no request, or with arrays of different
\* lengths, is rejected with no item verified, no nonce changed and no target
\* invoked.
C9_PrecheckRejects ==
    (last.kind = "batch"
        /\ (Len(last.requests) = 0 \/ Len(last.requests) # Len(last.signatures)))
        => /\ last.status = "reverted"
           /\ last.reason = (IF Len(last.requests) # Len(last.signatures)
                             THEN ErrLength ELSE ErrEmpty)
           /\ last.verified = 0
           /\ last.failedAt = 0
           /\ UnchangedSinceEntry

\* Two requests submitted with one signature, rejected for the lengths.
C9_Witness ==
    /\ last.kind = "batch"
    /\ Len(last.requests) = 2
    /\ Len(last.signatures) = 1
    /\ last.status = "reverted"
    /\ last.reason = ErrLength

\* C10: a completed executeBatch returns one boolean per request, and the
\* events it emitted itself are one RequestExecuted per request, in request
\* order and carrying that request's result, followed by one BatchExecuted
\* with the number of requests and the number of true results.
C10_ResultsAndEvents ==
    (last.kind = "batch" /\ last.status = "ok") =>
        LET n == Len(last.requests)
            trues == Cardinality({j \in 1..n : last.results[j]})
        IN  /\ Len(last.results) = n
            /\ OwnEventsOfLast =
                  [j \in 1..(n + 1) |->
                      IF j <= n
                      THEN RequestExecuted(last.requests[j], last.results[j], last.depth)
                      ELSE BatchExecuted(last.caller, n, trues, last.depth)]

\* A completed batch of two with one success and one failure.
C10_Witness ==
    /\ last.kind = "batch"
    /\ last.status = "ok"
    /\ last.results = <<TRUE, FALSE>>
    /\ last.logs[Len(last.logs)] = BatchExecuted("relayer", 2, 1, 1)

\* C11: a pair (S, k) is consumed only by a step that finds the ledger entry of
\* S at exactly k and leaves it at k+1; so in every state the consumed nonces
\* of S are exactly those below its ledger entry (increasing order, no gap),
\* and while (S, k) is not consumed no pair (S, k') with k' > k is.
C11_ConsumedInOrder ==
    [][/\ \A p \in Pairs :
            invoked'[p] > invoked[p]
                => /\ getNonce(nonces, p[1]) = p[2]
                   /\ getNonce(nonces', p[1]) = p[2] + 1
       /\ \A p \in Pairs :
            invoked'[p] = (IF p[2] < getNonce(nonces', p[1]) THEN 1 ELSE 0)
       /\ \A p \in Pairs, q \in Pairs :
            (p[1] = q[1] /\ q[2] > p[2] /\ invoked'[p] = 0) => invoked'[q] = 0]_vars

\* A request signed for nonce 1 was submitted while its sender's nonce was 0,
\* and rejected; the other sender's two requests had been consumed in order.
C11_Witness ==
    /\ last.kind = "batch"
    /\ last.depth = 1
    /\ last.status = "reverted"
    /\ last.reason = ErrInvalid
    /\ last.failedAt = 1
    /\ SignedBySender(last.requests[1], last.signatures[1])
    /\ last.requests[1].nonce = 1
    /\ nonces[last.requests[1].from] = 0
    /\ \E s \in Senders : nonces[s] = 2 /\ invoked[<<s, 0>>] = 1 /\ invoked[<<s, 1>>] = 1

\* requests[] rs with signatures[] sigs: one sender's requests, each signed by
\* that sender, with the nonces n, n+1, ... in that order.
ConsecutiveRun(rs, sigs, n) ==
    /\ Len(rs) >= 1
    /\ Len(rs) = Len(sigs)
    /\ \A j \in 1..Len(rs) :
          /\ rs[j].from = rs[1].from
          /\ SignedBySender(rs[j], sigs[j])
          /\ rs[j].nonce = n + j - 1

\* The same items as a ConsecutiveRun from n, in another order.
ReorderedRun(rs, sigs, n) ==
    /\ Len(rs) >= 2
    /\ Len(rs) = Len(sigs)
    /\ \A j \in 1..Len(rs) : rs[j].from = rs[1].from /\ SignedBySender(rs[j], sigs[j])
    /\ {rs[j].nonce : j \in 1..Len(rs)} = n..(n + Len(rs) - 1)
    /\ \E j \in 1..Len(rs) : rs[j].nonce # n + j - 1

\* Among events, a consumption of a request of s made by a call nested in a
\* target invocation of the call at depth d.
NestedConsumption(events, s, d) ==
    \E k \in 1..Len(events) :
        events[k].type = "RequestExecuted" /\ events[k].from = s /\ events[k].depth > d

\* C12 as stated: a batch of one sender's requests with consecutive nonces from
\* the sender's current nonce n, in order and validly signed, is accepted and
\* leaves the sender's nonce at n+k; in another order it is rejected.
C12_AsStated ==
    (last.kind = "batch" /\ last.depth = 1 /\ Len(last.requests) >= 1) =>
        LET s == last.requests[1].from
            n == last.pre.nonces[s]
        IN  /\ ConsecutiveRun(last.requests, last.signatures, n)
                => /\ last.status = "ok"
                   /\ getNonce(nonces, s) = n + Len(last.requests)
            /\ ReorderedRun(last.requests, last.signatures, n)
                => last.status = "reverted" /\ UnchangedSinceEntry

\* C12, amended: as long as no target invoked by the batch has had the executor
\* consume a request of the same sender during its invocation, each item of
\* such a batch passes verify against the nonce left by the item before it,
\* and the completed batch leaves the sender's nonce at n+k; the same items in
\* any other order are rejected with the ledger unchanged.
C12_ConsecutiveBatch ==
    [][/\ (/\ Len(stack) = 1
            /\ Top.pc = "loop"
            /\ Top.i <= Len(Top.requests)
            /\ ConsecutiveRun(Top.requests, Top.signatures,
                               Top.saved.nonces[Top.requests[1].from])
            /\ ~NestedConsumption(logs, Top.requests[1].from, 1))
          => (/\ Len(stack') = 1
              /\ Top'.pc = "call"
              /\ Top'.i = Top.i
              /\ getNonce(nonces, Top.requests[1].from) = Top.requests[Top.i].nonce
              /\ getNonce(nonces', Top.requests[1].from) = Top.requests[Top.i].nonce + 1)
       /\ (last'.kind = "batch" /\ last'.depth = 1 /\ Len(last'.requests) >= 1) =>
            LET s == last'.requests[1].from
                n == last'.pre.nonces[s]
            IN  /\ (/\ ConsecutiveRun(last'.requests, last'.signatures, n)
                     /\ last'.status = "ok"
                     /\ ~NestedConsumption(last'.logs, s, 1))
                        => getNonce(nonces', s) = n + Len(last'.requests)
                /\ ReorderedRun(last'.requests, last'.signatures, n)
                        => /\ last'.status = "reverted"
                           /\ nonces' = last'.pre.nonces
                           /\ invoked' = last'.pre.invoked
                           /\ delivered' = last'.pre.delivered]_vars

\* A batch of one sender's two requests, nonces 0 and 1 in order, completed
\* with nothing nested and left the sender's nonce at 2.
C12_Witness ==
    /\ last.kind = "batch"
    /\ last.depth = 1
    /\ last.status = "ok"
    /\ Len(last.requests) = 2
    /\ ConsecutiveRun(last.requests, last.signatures, 0)
    /\ ~NestedConsumption(last.logs, last.requests[1].from, 1)
    /\ getNonce(nonces, last.requests[1].from) = 2

\* C13: a target is invoked by executeBatch only for an item whose signature is
\* the sender's own over exactly that request (target, payload and nonce), with
\* that sender appended to the payload and that nonce consumed; the token acts
\* for the appended account in such an invocation, and for the immediate
\* caller in every call that does not come from the trusted forwarder,
\* whatever account the caller appended.
C13_SenderPropagation ==
    [][/\ \A k \in 1..Len(stack') :
            stack'[k].pc = "call" =>
                LET req == stack'[k].requests[stack'[k].i]
                IN  /\ SignedBySender(req, stack'[k].signatures[stack'[k].i])
                    /\ Envelope(req).msgSender = Executor
                    /\ Envelope(req).calldata = <<req.data, req.from>>
       /\ Len(delivered') > Len(delivered) =>
            LET x == delivered'[Len(delivered')]
                req == Top.requests[Top.i]
            IN  /\ Top.pc = "call"
                /\ SignedBySender(req, Top.signatures[Top.i])
                /\ x.call.msgSender = trustedForwarder
                /\ x.call.to = req.to
                /\ x.call.calldata = <<req.data, req.from>>
                /\ x.sender = req.from
                /\ invoked'[<<req.from, req.nonce>>] = 1
                /\ getNonce(nonces', req.from) >= req.nonce + 1
       /\ last'.kind = "token" =>
            LET x == last'.delivered[1]
            IN  /\ x.call.msgSender # trustedForwarder
                /\ x.sender = x.call.msgSender
                /\ x.sender = last'.caller]_vars

\* The relayer called the token itself with a sender's address appended, after
\* a batch had delivered that sender's signed request through the executor.
C13_Witness ==
    /\ last.kind = "token"
    /\ last.caller = "relayer"
    /\ last.delivered[1].call.calldata[2] = "alice"
    /\ last.delivered[1].sender = "relayer"
    /\ invoked[<<"alice", 0>>] = 1

\* ------------------------------------------------- claims about GasSponsor
\* What storage s counts as used on day d: a counter stored on an earlier day
\* counts as 0.
UsedRelayer(s, r, d) == IF s.relayerLastClaimDay[r] < d THEN 0 ELSE s.relayerDailyClaimed[r]
UsedUser(s, u, d) == IF s.userLastSponsorDay[u] < d THEN 0 ELSE s.userDailySponsored[u]
UsedGlobal(s, d) == IF s.globalLastClaimDay < d THEN 0 ELSE s.globalDailyClaimed

\* What the pool has sent to r on day d, by the record sent.
ReceivedOn(sent, r, d) == IF sent.day = d THEN sent.amounts[r] ELSE 0

RECURSIVE SumOver(_, _)
SumOver(f, S) ==
    IF S = {} THEN 0
    ELSE LET x == CHOOSE y \in S : TRUE IN f[x] + SumOver(f, S \ {x})

\* The claims that reached their transfer: those waiting in it, and the one
\* that has just returned.
PassedClaims ==
    {[pre |-> claims[k].saved, post |-> claims[k].committed, caller |-> claims[k].caller,
      amount |-> claims[k].amount, users |-> claims[k].users,
      reimbursement |-> claims[k].reimbursement, today |-> Today(timestamp)] :
        k \in 1..Len(claims)}
    \cup (IF outcome.kind = "claim" /\ outcome.status = "ok"
          THEN {[pre |-> outcome.pre, post |-> outcome.committed,
                 caller |-> outcome.caller, amount |-> outcome.amount,
                 users |-> outcome.users, reimbursement |-> outcome.reimbursement,
                 today |-> outcome.today]}
          ELSE {})

\* C14: a claim that passes its checks sends exactly min(amount, maxPerClaim)
\* to its caller out of the pool balance, and raises the caller's used-today,
\* the global used-today and totalClaimed by that amount and the claim count by
\* one; the amount sent is never above maxPerClaim, and a claim that has
\* returned left its caller with at least that amount received.
C14_CappedReimbursement ==
    /\ \A c \in PassedClaims :
          LET m == Min(c.amount, c.pre.sponsor.maxPerClaim)
              r == c.caller
          IN  /\ c.reimbursement = m
              /\ m <= c.pre.sponsor.maxPerClaim
              /\ c.post.balance = c.pre.balance - m
              /\ ReceivedOn(c.post.received, r, c.today)
                    = ReceivedOn(c.pre.received, r, c.today) + m
              /\ c.post.sponsor.relayerDailyClaimed[r]
                    = UsedRelayer(c.pre.sponsor, r, c.today) + m
              /\ c.post.sponsor.globalDailyClaimed = UsedGlobal(c.pre.sponsor, c.today) + m
              /\ c.post.sponsor.totalClaimed = c.pre.sponsor.totalClaimed + m
              /\ c.post.sponsor.totalClaimCount = c.pre.sponsor.totalClaimCount + 1
    /\ (outcome.kind = "claim" /\ outcome.status = "ok") =>
          /\ ReceivedOn(received, outcome.caller, outcome.today)
                >= ReceivedOn(outcome.pre.received, outcome.caller, outcome.today)
                      + outcome.reimbursement
          /\ balance <= outcome.pre.balance - outcome.reimbursement

\* claim(4, ...) under maxPerClaim = 3 returned after sending 3.
C14_Witness ==
    /\ outcome.kind = "claim"
    /\ outcome.status = "ok"
    /\ outcome.depth = 1
    /\ outcome.amount = 4
    /\ sponsor.maxPerClaim = 3
    /\ received.amounts[outcome.caller] = 3
    /\ balance = outcome.pre.balance - 3

\* C15: a claim that fails (not whitelisted, a daily limit, the pool balance,
\* the division by an empty list, or the transfer to its caller) leaves every
\* field of the storage, the pool balance and what every submitter has
\* received exactly as they were when it was called, also when it had written
\* day-rollover resets or counters before it failed.
C15_FailedClaimChangesNothing ==
    (outcome.kind = "claim" /\ outcome.status = "reverted") =>
        /\ sponsor = outcome.pre.sponsor
        /\ balance = outcome.pre.balance
        /\ received = outcome.pre.received
        /\ outcome.reason \in {ErrNotWhitelisted, ErrPaused, ErrRelayerLimit, ErrUserLimit,
                               ErrGlobalLimit, ErrFunds, ErrTransfer, PanicDivision}

\* A claim failed at the global limit after it had written the day-rollover
\* resets of its caller and of a user.
C15_Witness ==
    /\ outcome.kind = "claim"
    /\ outcome.status = "reverted"
    /\ outcome.reason = ErrGlobalLimit
    /\ outcome.reached # outcome.pre.sponsor
    /\ outcome.reached.relayerLastClaimDay[outcome.caller]
          > outcome.pre.sponsor.relayerLastClaimDay[outcome.caller]
    /\ \E u \in Senders :
          outcome.reached.userLastSponsorDay[u] > outcome.pre.sponsor.userLastSponsorDay[u]

\* C16: what the pool has sent on one day to all submitters together is never
\* above globalDailyLimit and equals the global counter of that day; a claim
\* is rejected with the global daily limit error exactly when the day's
\* counter plus its capped amount would exceed the limit while the checks
\* before it pass, and it leaves the counter as the last passed claim left it.
C16_GlobalDailyCap ==
    /\ SumOver(received.amounts, Submitters) <= sponsor.globalDailyLimit
    /\ SumOver(received.amounts, Submitters) = UsedGlobal(sponsor, received.day)
    /\ UsedGlobal(sponsor, Today(timestamp)) <= sponsor.globalDailyLimit
    /\ (outcome.kind = "claim" /\ outcome.reason = ErrGlobalLimit) =>
          /\ outcome.status = "reverted"
          /\ UsedGlobal(outcome.pre.sponsor, outcome.today) + outcome.reimbursement
                > outcome.pre.sponsor.globalDailyLimit
          /\ sponsor.globalDailyClaimed = outcome.pre.sponsor.globalDailyClaimed
          /\ sponsor.globalLastClaimDay = outcome.pre.sponsor.globalLastClaimDay
    /\ \A c \in PassedClaims :
          UsedGlobal(c.pre.sponsor, c.today) + c.reimbursement
              <= c.pre.sponsor.globalDailyLimit

\* After one submitter was paid, a claim of the other submitter on the same
\* day was rejected at the global limit.
C16_Witness ==
    /\ outcome.kind = "claim"
    /\ outcome.status = "reverted"
    /\ outcome.reason = ErrGlobalLimit
    /\ outcome.depth = 1
    /\ received.day = outcome.today
    /\ received.amounts[outcome.caller] = 0
    /\ \E r \in Submitters : received.amounts[r] = 3
    /\ sponsor.globalDailyClaimed = 3

\* C17: what the pool has sent on one day to one submitter is never above
\* dailyLimitPerRelayer and equals that submitter's counter of that day,
\* under every choice of the per-user and global limits and for every users
\* list.
C17_RelayerDailyCap ==
    \A r \in Submitters :
        /\ received.amounts[r] <= sponsor.dailyLimitPerRelayer
        /\ received.amounts[r] = UsedRelayer(sponsor, r, received.day)
        /\ UsedRelayer(sponsor, r, Today(timestamp)) <= sponsor.dailyLimitPerRelayer

\* Under a global limit that never binds, a submitter that had received 3 on
\* one day was refused a further claim that day.
C17_Witness ==
    /\ outcome.kind = "claim"
    /\ outcome.status = "reverted"
    /\ outcome.reason = ErrRelayerLimit
    /\ sponsor.globalDailyLimit = 16
    /\ received.day = outcome.today
    /\ received.amounts[outcome.caller] = 3

\* C18: the used-today counter of every user is at most dailyLimitPerUser.
C18_UserDailyCap ==
    \A u \in Senders : UsedUser(sponsor, u, Today(timestamp)) <= sponsor.dailyLimitPerUser

\* C19: a claim with an empty users list is rejected by a check of the
\* contract, not by the failure of the division by users.length, and leaves
\* the ledger unchanged.
C19_EmptyUsersRejectedByCheck ==
    (outcome.kind = "claim" /\ Len(outcome.users) = 0) =>
        /\ outcome.status = "reverted"
        /\ outcome.reason # PanicDivision
        /\ sponsor = outcome.pre.sponsor
        /\ balance = outcome.pre.balance

\* C20: a claim over n distinct users that passes its checks raises the
\* used-today counter of each of them by reimbursement \div n and of nobody
\* else; the increments sum to reimbursement - reimbursement % n, and the
\* caller is sent the whole reimbursement.
C20_RoundingLoss ==
    \A c \in PassedClaims :
        LET n == Len(c.users)
            named == {c.users[j] : j \in 1..n}
            rise == [u \in Senders |->
                        c.post.sponsor.userDailySponsored[u]
                            - (IF u \in named THEN UsedUser(c.pre.sponsor, u, c.today)
                               ELSE c.pre.sponsor.userDailySponsored[u])]
        IN  Cardinality(named) = n =>
                /\ \A u \in named : rise[u] = c.reimbursement \div n
                /\ \A u \in Senders \ named : rise[u] = 0
                /\ SumOver(rise, Senders) <= c.reimbursement
                /\ SumOver(rise, Senders) = c.reimbursement - (c.reimbursement % n)
                /\ ReceivedOn(c.post.received, c.caller, c.today)
                      = ReceivedOn(c.pre.received, c.caller, c.today) + c.reimbursement

\* A claim of 3 over two distinct users returned: each counter rose by 1.
C20_Witness ==
    /\ outcome.kind = "claim"
    /\ outcome.status = "ok"
    /\ outcome.depth = 1
    /\ outcome.users = <<"alice", "bob">>
    /\ outcome.reimbursement = 3
    /\ sponsor.userDailySponsored["alice"] = outcome.pre.sponsor.userDailySponsored["alice"] + 1
    /\ sponsor.userDailySponsored["bob"] = outcome.pre.sponsor.userDailySponsored["bob"] + 1
    /\ received.amounts[outcome.caller] = 3

\* How often u is named in users.
Occurrences(users, u) == Cardinality({i \in 1..Len(users) : users[i] = u})

\* C21: usage stored on an earlier day counts as 0 on a later day. A claim
\* fails at a daily limit only when the usage of the current day (0 for a
\* stale counter) plus its amount exceeds the limit; estimateReimbursement
\* answers from the same quantities; getRelayerDailyRemaining,
\* getUserDailyRemaining and getGlobalDailyRemaining return the limit less the
\* usage of the current day; and a claim that passes its checks leaves every
\* dimension that was stale with the current day and a counter equal to what
\* this claim added to it.
C21_EarlierDayUsageIgnored ==
    /\ \A c \in PassedClaims :
          LET pre == c.pre.sponsor
              post == c.post.sponsor
              cost == c.reimbursement \div Len(c.users)
          IN  /\ UsedRelayer(pre, c.caller, c.today) + c.reimbursement
                     <= pre.dailyLimitPerRelayer
              /\ UsedGlobal(pre, c.today) + c.reimbursement <= pre.globalDailyLimit
              /\ \A i \in 1..Len(c.users) :
                     UsedUser(pre, c.users[i], c.today) + cost <= pre.dailyLimitPerUser
              /\ pre.relayerLastClaimDay[c.caller] < c.today =>
                     /\ post.relayerLastClaimDay[c.caller] = c.today
                     /\ post.relayerDailyClaimed[c.caller] = c.reimbursement
              /\ pre.globalLastClaimDay < c.today =>
                     /\ post.globalLastClaimDay = c.today
                     /\ post.globalDailyClaimed = c.reimbursement
              /\ \A i \in 1..Len(c.users) :
                     pre.userLastSponsorDay[c.users[i]] < c.today =>
                         /\ post.userLastSponsorDay[c.users[i]] = c.today
                         /\ post.userDailySponsored[c.users[i]]
                               = cost * Occurrences(c.users, c.users[i])
    /\ (outcome.kind = "claim" /\ outcome.status = "reverted") =>
          LET pre == outcome.pre.sponsor
              cost == outcome.reimbursement \div Len(outcome.users)
          IN  /\ outcome.reason = ErrRelayerLimit =>
                     UsedRelayer(pre, outcome.caller, outcome.today) + outcome.reimbursement
                         > pre.dailyLimitPerRelayer
              /\ outcome.reason = ErrGlobalLimit =>
                     UsedGlobal(pre, outcome.today) + outcome.reimbursement
                         > pre.globalDailyLimit
              /\ outcome.reason = ErrUserLimit =>
                     \E i \in 1..Len(outcome.users) :
                         UsedUser(pre, outcome.users[i], outcome.today) + cost
                             > pre.dailyLimitPerUser
    /\ (outcome.kind = "estimateReimbursement" /\ outcome.status = "ok") =>
          LET pre == outcome.pre.sponsor
              m == Min(outcome.amount, pre.maxPerClaim)
              fits == /\ outcome.pre.balance >= m
                      /\ UsedRelayer(pre, outcome.caller, outcome.today) + m
                            <= pre.dailyLimitPerRelayer
                      /\ UsedGlobal(pre, outcome.today) + m <= pre.globalDailyLimit
                      /\ \A i \in 1..Len(outcome.users) :
                            UsedUser(pre, outcome.users[i], outcome.today)
                                + m \div Len(outcome.users) <= pre.dailyLimitPerUser
          IN  outcome.result = IF fits THEN <<m, TRUE>> ELSE <<0, FALSE>>
    /\ outcome.kind = "getRelayerDailyRemaining" =>
          LET used == UsedRelayer(outcome.pre.sponsor, outcome.caller, outcome.today)
              limit == outcome.pre.sponsor.dailyLimitPerRelayer
          IN  outcome.result = <<IF limit > used THEN limit - used ELSE 0>>
    /\ outcome.kind = "getUserDailyRemaining" =>
          LET used == UsedUser(outcome.pre.sponsor, outcome.caller, outcome.today)
              limit == outcome.pre.sponsor.dailyLimitPerUser
          IN  outcome.result = <<IF limit > used THEN limit - used ELSE 0>>
    /\ outcome.kind = "getGlobalDailyRemaining" =>
          LET used == UsedGlobal(outcome.pre.sponsor, outcome.today)
              limit == outcome.pre.sponsor.globalDailyLimit
          IN  outcome.result = <<IF limit > used THEN limit - used ELSE 0>>

\* On a later day a claim passed although the counters stored for its caller,
\* for its user and for the pool, added to its amount, exceed the limits; it
\* left its own amount in each of them.
C21_Witness ==
    /\ outcome.kind = "claim"
    /\ outcome.status = "ok"
    /\ LET pre == outcome.pre.sponsor
           post == outcome.committed.sponsor
           r == outcome.caller
           u == outcome.users[1]
       IN  /\ pre.relayerLastClaimDay[r] < outcome.today
           /\ pre.relayerDailyClaimed[r] + outcome.reimbursement > pre.dailyLimitPerRelayer
           /\ pre.globalLastClaimDay < outcome.today
           /\ pre.globalDailyClaimed + outcome.reimbursement > pre.globalDailyLimit
           /\ pre.userLastSponsorDay[u] < outcome.today
           /\ pre.userDailySponsored[u] > 0
           /\ post.relayerDailyClaimed[r] = outcome.reimbursement
           /\ post.globalDailyClaimed = outcome.reimbursement
           /\ post.userLastSponsorDay[u] = outcome.today

\* The users named in a list.
Named(users) == {users[i] : i \in 1..Len(users)}

\* C22: the daily counters are reset dimension by dimension, each by the claim
\* that touches it. A claim by R naming the users L that passes its checks
\* leaves R, every member of L and the pool with the current day stored, and
\* leaves the stored counter and the stored day of every other submitter and
\* of every user outside L as they were, stale or not.
C22_ResetPerDimension ==
    \A c \in PassedClaims :
        LET pre == c.pre.sponsor
            post == c.post.sponsor
        IN  /\ post.relayerLastClaimDay[c.caller] = c.today
            /\ post.globalLastClaimDay = c.today
            /\ \A u \in Named(c.users) : post.userLastSponsorDay[u] = c.today
            /\ \A r \in Submitters \ {c.caller} :
                   /\ post.relayerDailyClaimed[r] = pre.relayerDailyClaimed[r]
                   /\ post.relayerLastClaimDay[r] = pre.relayerLastClaimDay[r]
            /\ \A u \in Senders \ Named(c.users) :
                   /\ post.userDailySponsored[u] = pre.userDailySponsored[u]
                   /\ post.userLastSponsorDay[u] = pre.userLastSponsorDay[u]

\* After a day boundary a claim passed and reset its caller, its users and the
\* pool, while another submitter and another user keep the counters and the
\* day of their claims of the day before.
C22_Witness ==
    /\ outcome.kind = "claim"
    /\ outcome.status = "ok"
    /\ \E r \in Submitters \ {outcome.caller}, u \in Senders \ Named(outcome.users) :
          /\ outcome.pre.sponsor.relayerLastClaimDay[outcome.caller] < outcome.today
          /\ outcome.pre.sponsor.globalLastClaimDay < outcome.today
          /\ \A v \in Named(outcome.users) :
                 outcome.pre.sponsor.userLastSponsorDay[v] < outcome.today
          /\ sponsor.relayerLastClaimDay[r] < outcome.today
          /\ sponsor.relayerDailyClaimed[r] > 0
          /\ sponsor.userLastSponsorDay[u] < outcome.today
          /\ sponsor.userDailySponsored[u] > 0
          /\ sponsor.relayerLastClaimDay[outcome.caller] = outcome.today
          /\ sponsor.globalLastClaimDay = outcome.today

\* What the pool has sent to all submitters on day d, by the record sent.
SentOn(sent, d) == SumOver([r \in Submitters |-> ReceivedOn(sent, r, d)], Submitters)

\* C23: the pool balance is never negative; a claim passes its checks only
\* when the balance is at least its capped reimbursement, and its transfer
\* lowers the balance by exactly that amount; when a claim has returned, the
\* balance is the balance it was called with less everything the pool sent
\* out during the call.
C23_BalanceAccounting ==
    /\ balance >= 0
    /\ \A c \in PassedClaims :
          /\ c.pre.balance >= c.reimbursement
          /\ c.reimbursement = Min(c.amount, c.pre.sponsor.maxPerClaim)
          /\ c.post.balance = c.pre.balance - c.reimbursement
          /\ c.post.balance >= 0
    /\ (outcome.kind = "claim" /\ outcome.status = "ok") =>
          balance = outcome.pre.balance
                       - (SentOn(received, outcome.today)
                             - SentOn(outcome.pre.received, outcome.today))

\* A claim returned after a nested claim made during its transfer: the balance
\* fell by both reimbursements.
C23_Witness ==
    /\ outcome.kind = "claim"
    /\ outcome.status = "ok"
    /\ outcome.depth = 1
    /\ sponsor.totalClaimCount = outcome.pre.sponsor.totalClaimCount + 2
    /\ outcome.reimbursement = 2
    /\ balance = outcome.pre.balance - 4

\* Whether a claim of the capped amount m by caller for users fits the three
\* daily limits of storage s on the day today.
DailyChecksPass(s, caller, users, m, today) ==
    /\ UsedRelayer(s, caller, today) + m <= s.dailyLimitPerRelayer
    /\ \A i \in 1..Len(users) :
           UsedUser(s, users[i], today) + m \div Len(users) <= s.dailyLimitPerUser
    /\ UsedGlobal(s, today) + m <= s.globalDailyLimit

C25_EstimateAgreesWithClaim ==
    (/\ outcome.kind = "estimateReimbursement"
     /\ outcome.pre.sponsor.whitelistedRelayers[outcome.caller]
     /\ ~outcome.pre.sponsor.paused
     /\ Len(outcome.users) > 0) =>
        LET run == claimSteps(outcome.pre.sponsor, outcome.pre.balance, outcome.caller,
                              outcome.amount, outcome.users, outcome.today)
        IN  /\ outcome.status = "ok"
            /\ outcome.result
                  = IF run.reverted
                    THEN <<0, FALSE>>
                    ELSE <<Min(outcome.amount, outcome.pre.sponsor.maxPerClaim), TRUE>>
            /\ sponsor = outcome.pre.sponsor
            /\ balance = outcome.pre.balance
            /\ received = outcome.pre.received

\* The estimate of a claim that only the balance stops: the daily limits leave
\* room for it, the pool holds less than its capped amount, the answer is
\* (0, false).
C25_Witness ==
    /\ outcome.kind = "estimateReimbursement"
    /\ outcome.pre.sponsor.whitelistedRelayers[outcome.caller]
    /\ ~outcome.pre.sponsor.paused
    /\ Len(outcome.users) > 0
    /\ outcome.pre.sponsor.totalClaimCount > 0
    /\ DailyChecksPass(outcome.pre.sponsor, outcome.caller, outcome.users,
                       Min(outcome.amount, outcome.pre.sponsor.maxPerClaim), outcome.today)
    /\ outcome.pre.balance < Min(outcome.amount, outcome.pre.sponsor.maxPerClaim)
    /\ outcome.result = <<0, FALSE>>

\* C29: whenever estimateReimbursement(amount, relayer, users) answers
\* wouldSucceed = true, claim(amount, users) called by that relayer on the same
\* storage, balance and day passes its modifiers and all its checks and pays
\* the amount returned, whoever the relayer is and whether or not the pool is
\* paused.
C29_EstimateTrueMeansClaimPasses ==
    (/\ outcome.kind = "estimateReimbursement"
     /\ outcome.status = "ok"
     /\ outcome.result[2]) =>
        LET run == claimSteps(outcome.pre.sponsor, outcome.pre.balance, outcome.caller,
                              outcome.amount, outcome.users, outcome.today)
        IN  /\ ~run.reverted
            /\ run.reimbursement = outcome.result[1]

\* The estimate answered true for a whitelisted relayer while the pool was paused.
C29_PausedCase ==
    /\ outcome.kind = "estimateReimbursement"
    /\ outcome.status = "ok"
    /\ outcome.result = <<2, TRUE>>
    /\ outcome.caller = "relayer"
    /\ outcome.pre.sponsor.paused

\* C26: a claim passes only if, when it is called, its caller is whitelisted
\* and the pool is not paused. A claim by a caller that is not whitelisted, or
\* on a paused pool, is reverted in the modifier and leaves the storage, the
\* balance and the payments as they were; and the whitelist and the pause flag
\* are what the owner's latest setRelayer and setPaused made them: no other
\* call changes them.
C26_WhitelistedAndUnpaused ==
    /\ \A c \in PassedClaims :
          /\ c.pre.sponsor.whitelistedRelayers[c.caller]
          /\ ~c.pre.sponsor.paused
    /\ outcome.kind = "claim" =>
          LET pre == outcome.pre.sponsor
          IN  /\ ~pre.whitelistedRelayers[outcome.caller] =>
                     /\ outcome.status = "reverted"
                     /\ outcome.reason = ErrNotWhitelisted
              /\ (pre.whitelistedRelayers[outcome.caller] /\ pre.paused) =>
                     /\ outcome.status = "reverted"
                     /\ outcome.reason = ErrPaused
              /\ (~pre.whitelistedRelayers[outcome.caller] \/ pre.paused) =>
                     /\ sponsor = outcome.pre.sponsor
                     /\ balance = outcome.pre.balance
                     /\ received = outcome.pre.received
    /\ outcome.kind # "none" =>
          /\ sponsor.paused
                = IF outcome.kind = "setPaused" /\ outcome.status = "ok"
                  THEN outcome.arg[1] ELSE outcome.pre.sponsor.paused
          /\ \A r \in Submitters :
                sponsor.whitelistedRelayers[r]
                   = IF /\ outcome.kind = "setRelayer"
                        /\ outcome.status = "ok"
                        /\ outcome.arg[1] = r
                     THEN outcome.arg[2] ELSE outcome.pre.sponsor.whitelistedRelayers[r]
    /\ \A k \in 1..Len(claims) :
          /\ claims[k].committed.sponsor.paused = claims[k].saved.sponsor.paused
          /\ claims[k].committed.sponsor.whitelistedRelayers
                = claims[k].saved.sponsor.whitelistedRelayers

\* On a paused pool the claim of a whitelisted relayer was reverted, while a
\* second relayer that had claimed before is whitelisted no more.
C26_Witness ==
    /\ outcome.kind = "claim"
    /\ outcome.status = "reverted"
    /\ outcome.reason = ErrPaused
    /\ outcome.pre.balance >= outcome.amount
    /\ \E r \in Submitters \ {outcome.caller} :
          /\ ~sponsor.whitelistedRelayers[r]
          /\ sponsor.relayerDailyClaimed[r] > 0

\* The functions that carry the modifier onlyOwner.
OwnerFunctions ==
    {"setRelayer", "setLimits", "setPaused", "transferOwnership", "emergencyWithdraw"}

\* C27: setRelayer, setLimits, setPaused, transferOwnership and
\* emergencyWithdraw act only for the caller that is the owner when they are
\* called. Called by anyone else they are reverted and the whitelist, the
\* limits, the pause flag, the balance and the owner stay as they were; called
\* by the owner each writes what it is named for and nothing else, and
\* transferOwnership to the zero address is reverted. The owner changes only by
\* a transferOwnership that went through, so after transferOwnership(N) the
\* calls of N are the ones that act and those of the previous owner are
\* reverted.
C27_OwnerOnly ==
    /\ outcome.kind \in OwnerFunctions =>
          LET pre == outcome.pre.sponsor
              unchanged == /\ sponsor = pre
                           /\ balance = outcome.pre.balance
                           /\ received = outcome.pre.received
          IN  IF outcome.caller # pre.owner
              THEN /\ outcome.status = "reverted"
                   /\ outcome.reason = ErrNotOwner
                   /\ unchanged
              ELSE CASE outcome.kind = "setRelayer" ->
                          /\ outcome.status = "ok"
                          /\ sponsor = [pre EXCEPT !.whitelistedRelayers[outcome.arg[1]]
                                                      = outcome.arg[2]]
                          /\ balance = outcome.pre.balance
                     [] outcome.kind = "setLimits" ->
                          /\ outcome.status = "ok"
                          /\ sponsor = [pre EXCEPT
                                !.maxPerClaim = outcome.arg[1].maxPerClaim,
                                !.dailyLimitPerRelayer = outcome.arg[1].dailyLimitPerRelayer,
                                !.dailyLimitPerUser = outcome.arg[1].dailyLimitPerUser,
                                !.globalDailyLimit = outcome.arg[1].globalDailyLimit]
                          /\ balance = outcome.pre.balance
                     [] outcome.kind = "setPaused" ->
                          /\ outcome.status = "ok"
                          /\ sponsor = [pre EXCEPT !.paused = outcome.arg[1]]
                          /\ balance = outcome.pre.balance
                     [] outcome.kind = "transferOwnership" ->
                          IF outcome.arg[1] = ZeroAddress
                          THEN /\ outcome.status = "reverted"
                               /\ outcome.reason = ErrZeroOwner
                               /\ unchanged
                          ELSE /\ outcome.status = "ok"
                               /\ sponsor = [pre EXCEPT !.owner = outcome.arg[1]]
                               /\ balance = outcome.pre.balance
                     [] outcome.kind = "emergencyWithdraw" ->
                          IF outcome.status = "ok"
                          THEN /\ balance = 0
                               /\ sponsor = pre
                          ELSE /\ outcome.reason = ErrTransfer
                               /\ unchanged
    /\ (/\ outcome.kind # "none"
        /\ ~(outcome.kind = "transferOwnership" /\ outcome.status = "ok")) =>
          sponsor.owner = outcome.pre.sponsor.owner
    /\ \A k \in 1..Len(claims) :
          claims[k].committed.sponsor.owner = claims[k].saved.sponsor.owner

\* After ownership had moved to owner2, emergencyWithdraw called by the
\* deployer was reverted and the pool kept its balance.
C27_Witness ==
    /\ outcome.kind = "emergencyWithdraw"
    /\ outcome.caller = Deployer
    /\ outcome.pre.sponsor.owner = Owner2
    /\ outcome.status = "reverted"
    /\ outcome.reason = ErrNotOwner
    /\ balance = outcome.pre.balance
    /\ balance > 0

\* The reimbursements of the claims in progress below position k of the call
\* stack, and what they added to the counter of user u.
PaidBelow(k) == SumOver([j \in 1..(k - 1) |-> claims[j].reimbursement], 1..(k - 1))
AddedBelow(k, u) ==
    SumOver([j \in 1..(k - 1) |->
                (claims[j].reimbursement \div Len(claims[j].users))
                    * Occurrences(claims[j].users, u)],
            1..(k - 1))

\* C28: a claim made by the relayer from inside the transfer of its own claim
\* meets the counters and the balance that the claims in progress have already
\* written: the usage of the day it is checked against holds the amounts of all
\* claims in progress, for the relayer, for each user and for the pool, and the
\* balance it is checked against has lost them. So the claims in progress,
\* nested ones included, together stay within dailyLimitPerRelayer and
\* globalDailyLimit and within the balance the outermost claim was called
\* with, and a nested claim that would exceed one of them is reverted.
C28_ReentrantClaimsKeepCaps ==
    LET day == Today(timestamp)
        n == Len(claims)
    IN  /\ \A k \in 1..n :
              LET f == claims[k]
                  pre == f.saved.sponsor
              IN  /\ UsedRelayer(pre, f.caller, day) >= PaidBelow(k)
                  /\ UsedGlobal(pre, day) >= PaidBelow(k)
                  /\ \A u \in Senders : UsedUser(pre, u, day) >= AddedBelow(k, u)
                  /\ f.saved.balance <= claims[1].saved.balance - PaidBelow(k)
                  /\ f.caller = claims[1].caller
        /\ n > 0 =>
              /\ PaidBelow(n + 1) <= sponsor.dailyLimitPerRelayer
              /\ PaidBelow(n + 1) <= sponsor.globalDailyLimit
              /\ PaidBelow(n + 1) <= claims[1].saved.balance
              /\ sponsor.relayerDailyClaimed[claims[1].caller] >= PaidBelow(n + 1)
              /\ sponsor.globalDailyClaimed >= PaidBelow(n + 1)
              /\ balance <= claims[1].saved.balance - PaidBelow(n + 1)
        /\ (outcome.kind = "claim" /\ outcome.depth > 1) =>
              LET pre == outcome.pre.sponsor
                  k == outcome.depth
              IN  /\ UsedRelayer(pre, outcome.caller, outcome.today) >= PaidBelow(k)
                  /\ UsedGlobal(pre, outcome.today) >= PaidBelow(k)
                  /\ outcome.pre.balance <= claims[1].saved.balance - PaidBelow(k)
                  /\ (/\ outcome.reimbursement > 0
                      /\ \/ PaidBelow(k) + outcome.reimbursement > pre.dailyLimitPerRelayer
                         \/ PaidBelow(k) + outcome.reimbursement > pre.globalDailyLimit
                         \/ PaidBelow(k) + outcome.reimbursement > claims[1].saved.balance)
                        => outcome.status = "reverted"

\* The relayer claimed again from inside the transfer of its claim; the nested
\* claim, which the relayer's counter as it was before the outer claim would
\* have let through, was reverted at the relayer's daily limit.
C28_Witness ==
    /\ Len(claims) = 1
    /\ outcome.kind = "claim"
    /\ outcome.depth = 2
    /\ outcome.status = "reverted"
    /\ outcome.reason = ErrRelayerLimit
    /\ UsedRelayer(claims[1].saved.sponsor, outcome.caller, outcome.today)
           + outcome.reimbursement <= sponsor.dailyLimitPerRelayer
    /\ UsedRelayer(outcome.pre.sponsor, outcome.caller, outcome.today)
           = UsedRelayer(claims[1].saved.sponsor, outcome.caller, outcome.today)
                + claims[1].reimbursement

\* C30: verify returns a boolean for every request and every signature; for a
\* signature that is not 65 bytes long, or from which no signer is recovered,
\* the call ends with the result false and not with a revert.
C30_VerifyAlwaysReturns ==
    last.kind = "verify" =>
        /\ last.status = "ok"
        /\ (\/ last.signatures[1].length # SigLength
            \/ ecrecover(Digest(last.requests[1]), last.signatures[1]) = ZeroAddress)
              => ~last.value

\* C31, as it was stated: in every state of the pool, balance + totalClaimed
\* + the sum of all emergency withdrawals = totalDeposited, hence totalClaimed
\* <= totalDeposited; totalClaimed is the sum of the amounts paid by claims and
\* totalClaimCount their number.
C31_AsStated ==
    /\ balance + sponsor.totalClaimed + received.withdrawn = sponsor.totalDeposited
    /\ sponsor.totalClaimed <= sponsor.totalDeposited
    /\ sponsor.totalClaimed = received.paid
    /\ sponsor.totalClaimCount = received.count

\* C31: in every state of the pool, balance + totalClaimed + the sum of all
\* emergency withdrawals = totalDeposited + the ether that reached the pool
\* without a call of deposit() or receive(), hence totalClaimed is at most
\* totalDeposited plus that ether; totalClaimed is the sum of the amounts paid
\* by claims and totalClaimCount their number, and no finished call leaves
\* either of them lower than it found it.
C31_Accounting ==
    /\ balance + sponsor.totalClaimed + received.withdrawn
          = sponsor.totalDeposited + received.forced
    /\ sponsor.totalClaimed <= sponsor.totalDeposited + received.forced
    /\ sponsor.totalClaimed = received.paid
    /\ sponsor.totalClaimCount = received.count
    /\ outcome.kind # "none" =>
          /\ sponsor.totalClaimed >= outcome.pre.sponsor.totalClaimed
          /\ sponsor.totalClaimCount >= outcome.pre.sponsor.totalClaimCount
          /\ sponsor.totalDeposited >= outcome.pre.sponsor.totalDeposited

\* A deposit, ether forced into the pool, an emergency withdrawal and two
\* claims have all happened, and the pool still holds ether.
C31_Witness ==
    /\ received.forced > 0
    /\ received.withdrawn > 0
    /\ sponsor.totalClaimCount >= 2
    /\ sponsor.totalClaimed > 0
    /\ balance > 0
    /\ outcome.kind = "claim"
    /\ outcome.status = "ok"

\* C32: emergencyWithdraw called by the owner sends the whole balance to the
\* owner and leaves the pool with 0 whenever the owner's account accepts the
\* transfer, paused or not; the limits, the whitelist, the pause flag, the
\* owner, the daily counters, the stored days and the totals stay as they
\* were, and so do the payments made to the relayers. When the owner's account
\* refuses the transfer the call is reverted and the balance stays.
C32_EmergencyWithdraw ==
    (outcome.kind = "emergencyWithdraw" /\ outcome.caller = outcome.pre.sponsor.owner) =>
        /\ sponsor = outcome.pre.sponsor
        /\ received.amounts = outcome.pre.received.amounts
        /\ received.paid = outcome.pre.received.paid
        /\ IF outcome.arg[2]
           THEN /\ outcome.status = "ok"
                /\ balance = 0
                /\ outcome.arg[1] = outcome.pre.balance
                /\ received.withdrawn = outcome.pre.received.withdrawn + outcome.pre.balance
           ELSE /\ outcome.status = "reverted"
                /\ outcome.reason = ErrTransfer
                /\ balance = outcome.pre.balance
                /\ received.withdrawn = outcome.pre.received.withdrawn

\* The owner emptied a paused pool that held ether and had paid a claim that
\* day: the counters and totals of that claim are still stored.
C32_Witness ==
    /\ outcome.kind = "emergencyWithdraw"
    /\ outcome.status = "ok"
    /\ outcome.pre.sponsor.paused
    /\ sponsor.paused
    /\ outcome.pre.balance > 0
    /\ balance = 0
    /\ sponsor.totalClaimed > 0
    /\ sponsor.globalDailyClaimed > 0

\* ------------------------------------------------- claims about the relayer
\* The admitted pairs a flushBatch call in progress holds.
InFlight == UNION {Ids(f.requests) : f \in {t \in tasks : t.kind = "flushBatch"}}

\* The admitted pairs of the batches flushBatch reported as executed.
InFinished == UNION {finished[i].ids : i \in 1..Len(finished)}

\* C33: a call of addRequest puts its (request, signature) pair on the queue
\* only if verify(request, signature) returned true when the call asked; when
\* verify returned false the call throws "Invalid signature or nonce" and
\* pendingRequests and pendingSignatures are what they were.
C33_AdmittedOnlyIfVerified ==
    [][\A t \in tasks :
          (t.kind = "addRequest" /\ t \notin tasks') =>
              LET v == verify(t.requests[1].request, t.signatures[1].signature, nonces)
                  held == Ids(pendingRequests') \cup Ids(pendingSignatures')
                              \cup UNION {Ids(f.requests) \cup Ids(f.signatures) : f \in tasks'}
              IN  /\ t.id \in held => (~v.reverted /\ v.value)
                  /\ (~v.reverted /\ ~v.value) =>
                         /\ reply' = [id |-> t.id, answer |-> ErrNotAdmitted]
                         /\ pendingRequests' = pendingRequests
                         /\ pendingSignatures' = pendingSignatures]_vars

\* A request signed with another sender's key was refused while an admitted
\* one was waiting in the queue, which still holds exactly that one.
C33_Witness ==
    /\ reply.answer = ErrNotAdmitted
    /\ Len(pendingRequests) = 1
    /\ Len(pendingSignatures) = 1
    /\ reply.id > pendingRequests[1].id
    /\ pendingRequests[1].request = Request("alice", 0)
    /\ posts = 2
    /\ tasks = {}

\* C34: the two requests alice signed as one batch (nonces 0 and 1, from
\* signBatchRequests) are posted in that order while no flush has taken the
\* first: the second is admitted as well, next to the first.
C34_ConsecutiveNoncesAdmitted ==
    [][\A t \in tasks :
          (/\ t.kind = "addRequest"
           /\ t \notin tasks'
           /\ t.requests[1].request = signBatchRequests("alice", 0, 2)[2].request
           /\ t.signatures[1].signature = signBatchRequests("alice", 0, 2)[2].signature
           /\ Len(pendingRequests) = 1
           /\ pendingRequests[1].request = signBatchRequests("alice", 0, 2)[1].request
           /\ pendingSignatures[1].signature = signBatchRequests("alice", 0, 2)[1].signature
           /\ pendingRequests[1].id < t.id
           /\ nonces["alice"] = 0
           /\ InFlight = {}
           /\ finished = <<>>
           /\ executed = {})
          => t.id \in Ids(pendingRequests') \cup UNION {Ids(f.requests) : f \in tasks'}]_vars

\* The flushBatch calls in progress.
Flushes == {t \in tasks : t.kind = "flushBatch"}

\* The admitted pairs the relayer holds, wherever they are.
Held == Ids(pendingRequests) \cup InFlight \cup InFinished

\* An array of queue entries names no admitted pair twice.
NoRepeat(entries) ==
    \A i, j \in 1..Len(entries) : entries[i].id = entries[j].id => i = j

\* Two arrays of equal length whose entries at each index belong together.
Matching(requests, signatures) ==
    /\ Len(requests) = Len(signatures)
    /\ \A i \in 1..Len(requests) : requests[i].id = signatures[i].id

\* Every admitted pair is in one place only, and the request and signature
\* arrays go together index by index, in the queue and in every batch.
OnePlace ==
    /\ NoRepeat(pendingRequests)
    /\ \A f \in Flushes : NoRepeat(f.requests)
    /\ Ids(pendingRequests) \cap InFlight = {}
    /\ Ids(pendingRequests) \cap InFinished = {}
    /\ InFlight \cap InFinished = {}
    /\ \A f, g \in Flushes : f # g => Ids(f.requests) \cap Ids(g.requests) = {}
    /\ \A i, j \in 1..Len(finished) : i # j => finished[i].ids \cap finished[j].ids = {}
    /\ Matching(pendingRequests, pendingSignatures)
    /\ \A f \in Flushes : Matching(f.requests, f.signatures)

\* A step loses no pair the relayer held, and a flushBatch call that ends
\* without a result leaves its batch in front of the queue, in its order.
KeepsPairs ==
    /\ Held \subseteq Held'
    /\ \A f \in Flushes :
          (Ids(f.requests) \cap (InFlight' \cup InFinished') = {}) =>
              /\ pendingRequests' = f.requests \o pendingRequests
              /\ pendingSignatures' = f.signatures \o pendingSignatures

\* C35: whatever the interleaving of addRequest calls, timer flushes and
\* size flushes, every admitted (request, signature) pair is at each moment
\* in exactly one of the queue, one batch in flight, or one finished batch;
\* the two queue arrays have equal length and matching indices; and a failed
\* flush puts its whole batch back at the front of the queue in its order.
C35_NoPairLostOrDuplicated == []OnePlace /\ [][KeepsPairs]_vars

\* A batch taken by the timer failed after a second request had been queued:
\* the queue holds the first admitted pair in front of the second, while
\* nothing is in flight.
C35_Witness ==
    /\ Len(pendingRequests) = 2
    /\ pendingRequests[1].id = 1
    /\ pendingRequests[2].id = 2
    /\ Matching(pendingRequests, pendingSignatures)
    /\ reply = [id |-> 2, answer |-> "queued"]
    /\ tasks = {}
    /\ finished = <<>>

\* C36: a pair is back in the queue only if the executeBatch transaction that
\* carried it was not executed on chain: no failure after the confirmation,
\* in the same flushBatch call, re-queues it.
C36_RequeuedOnlyIfNotExecuted == Ids(pendingRequests) \cap executed = {}

\* C37: with the timer firing fairly and the chain answering, every pair in
\* the queue is eventually executed on chain or out of the relayer's hands
\* (neither queued nor in a batch in flight): a queued request that can no
\* longer verify does not hold the others back forever.
C37_EventuallyExecutedOrRemoved ==
    \A i \in 1..MaxPosts :
        (i \in Ids(pendingRequests)) ~>
            (i \in executed \/ i \notin Ids(pendingRequests) \cup InFlight)

\* C38: after any sequence of admissions, flushes and failed flushes the queue
\* holds at most maxBatchSize pairs and no batch handed to executeBatch has
\* more than maxBatchSize requests.
C38_NeverAboveMaxBatchSize ==
    /\ Len(pendingRequests) <= maxBatchSize
    /\ \A f \in Flushes : Len(f.requests) <= maxBatchSize

\* C39: for every executed batch whose gas cost the relayer computed, the
\* reimbursement claim is submitted whenever claim(gasCost, users) would
\* succeed on the pool, and then pays min(gasCost, maxPerClaim); it is
\* skipped only when the claim could not succeed; whatever becomes of the
\* claim, the batch is reported as executed.
C39_ClaimsWheneverPayable ==
    \A i \in 1..Len(finished) :
        LET r == finished[i]
        IN  /\ r.status = "executed"
            /\ (r.gasCost > 0 /\ r.payable) => r.claim # "skipped"
            /\ r.claim = "claimed" => r.paid = CapAmount(r.gasCost, sponsor.maxPerClaim)
====
